---- MODULE Spec2Model ----
(***************************************************************************)
(* Model of the blockchain messaging application:                          *)
(*   - contracts/MessageAnchor.sol     (message directory)                 *)
(*   - contracts/IdentityRegistry.sol  (public key registry)               *)
(*   - frontend receive path (MessageList.js, ipfs.js, blockchain.js)      *)
(* Spec          : every transaction sequence against MessageAnchor.       *)
(* SpecRegistry  : every transaction sequence against IdentityRegistry.    *)
(* SpecReceive   : send, store tampering and the MessageList receive path. *)
(* SpecCrypto, SpecStore, SpecRetrieve, SpecSend, SpecKeys, SpecKeyMgmt,    *)
(* SpecIpfs, SpecLive, SpecEncodings, SpecViewer, SpecRetry: the frontend   *)
(* modules, each explored on its own.                                      *)
(***************************************************************************)
EXTENDS Integers, Sequences, FiniteSets, Bags, TLC

VARIABLES
    messages,        \* MessageAnchor.messages        (Message[])
    userMessages,    \* MessageAnchor.userMessages    (address => uint256[])
    anchorLog,       \* MessageAnchored events emitted so far
    now,             \* block.timestamp of the latest block
    lastCall,        \* outcome of the latest MessageAnchor transaction
    userPublicKeys,  \* IdentityRegistry.userPublicKeys (address => bytes)
    isRegistered,    \* IdentityRegistry.isRegistered   (address => bool)
    registryLog,     \* KeyRegistered / KeyUpdated events emitted so far
    regCall,         \* outcome of the latest IdentityRegistry transaction
    keyPair,         \* App keyPair state of each account's session (private key)
    contentStore,    \* bytes retrievable at each content address
    tamperCount,     \* replacements of stored content so far
    lastSend,        \* outcome of the latest MessageComposer.handleSend
    selectedRecipient, \* App selectedRecipient of the viewer's session
    msgList,         \* MessageList messages state of the viewer's session
    decryptingIds,   \* MessageList decryptingIds state
    loadClosureIds,  \* decryptingIds as captured by the current loadMessages
    tasks,           \* decryptMessage invocations awaiting retrieval, per id
    ipfsConnected,   \* utils/ipfs: ipfsClient && isConnected
    putLog,          \* addresses uploadToIPFS has returned, with their content
    storeCall,       \* outcome of the latest uploadToIPFS / retrieveFromIPFS
    cryptoCall,      \* outcome of the latest utils/crypto call
    composer,        \* MessageComposer state and the position of its handleSend
    keyStorage,      \* localStorage items 'blockchain_messenger_keys*'
    savedKeys,       \* per identity scope, the latest successful save not yet cleared
    keyCall,         \* outcome of the latest key storage call or KeyManagement handler
    keyMgmt,         \* KeyManagement: account, keyPair, hasStored
    ipfsModule,      \* utils/ipfs module state: ipfsClient, isConnected, currentConfig
    initCall,        \* position of each initializeIPFS invocation
    versionOk,       \* client handles whose version() test has succeeded
    fetchOp,         \* position of one decryptMessage(message) of MessageList
    deriveCall,      \* outcome of deriveSharedSecret on the encodings of one key
    loadCalls,       \* MessageList: loadMessages invocations awaiting the directory
    listener,        \* MessageList: the MessageAnchored subscription of the viewer
    timers           \* MessageList: setTimeout(decryptMessage, 100) not yet fired

vars == <<messages, userMessages, anchorLog, now, lastCall,
          userPublicKeys, isRegistered, registryLog, regCall,
          keyPair, contentStore, tamperCount, lastSend, selectedRecipient,
          msgList, decryptingIds, loadClosureIds, tasks,
          ipfsConnected, putLog, storeCall, cryptoCall, composer,
          keyStorage, savedKeys, keyCall, keyMgmt,
          ipfsModule, initCall, versionOk, fetchOp, deriveCall,
          loadCalls, listener, timers>>

anchorVars   == <<messages, userMessages, anchorLog, now, lastCall>>
registryVars == <<userPublicKeys, isRegistered, registryLog, regCall>>
clientVars   == <<ipfsConnected, putLog, storeCall, cryptoCall, composer>>
senderVars   == <<keyPair, contentStore, tamperCount, lastSend, clientVars>>
viewerVars   == <<selectedRecipient, msgList, decryptingIds, loadClosureIds, tasks>>
keyVars      == <<keyStorage, savedKeys, keyCall, keyMgmt>>
ipfsVars     == <<ipfsModule, initCall, versionOk>>
listVars     == <<loadCalls, listener, timers>>
moreVars     == <<deriveCall, listVars>>
browserVars  == <<keyVars, ipfsVars, fetchOp, moreVars>>
nonKeyVars   == <<anchorVars, registryVars, senderVars, viewerVars, ipfsVars, fetchOp,
                  moreVars>>
nonIpfsVars  == <<anchorVars, registryVars, keyPair, contentStore, tamperCount,
                  lastSend, putLog, storeCall, cryptoCall, composer, viewerVars,
                  keyVars, fetchOp, moreVars>>
nonFetchVars == <<anchorVars, registryVars, senderVars, viewerVars, keyVars, ipfsVars,
                  moreVars>>

----------------------------------------------------------------------------
(* Bounds *)

MaxMsgs == 3          \* successful anchorMessage transactions explored
MaxRegEvents == 4     \* successful registry transactions explored

----------------------------------------------------------------------------
(* Value domains *)

ZeroAddress == "0x0"                     \* address(0)
Users       == {"u1", "u2", "u3"}        \* externally owned accounts
Addresses   == Users \cup {ZeroAddress}

ZeroHash == 0                            \* bytes32(0)
Hashes   == {ZeroHash, 1}

\* strings and byte strings are sequences of symbols; the empty one has length 0
EmptyString == << >>
CidPrefix      == <<1>>                  \* an address issued by the store node
FallbackPrefix == <<2>>                  \* 'fallback_'
IpfsHashes  == {EmptyString, CidPrefix \o <<1>>}

EmptyBytes == << >>                      \* bytes of length 0

\* generateKeyPair: a random private key; the public key is the uncompressed
\* curve point 0x04 || x || y of the private key (an injective function of it)
PrivateKeys == {1, 2}
PublicKeyOf(privateKey) == <<4, 10 + privateKey, 20 + privateKey>>
KeyBytes   == {EmptyBytes} \cup {PublicKeyOf(k) : k \in PrivateKeys}

NoCall == [op |-> "none", sender |-> ZeroAddress, to |-> ZeroAddress,
           messageHash |-> ZeroHash, ipfsHash |-> EmptyString,
           status |-> "none", reason |-> ""]

NoRegCall == [op |-> "none", sender |-> ZeroAddress, key |-> EmptyBytes,
              status |-> "none", reason |-> ""]

NoKeyPair   == 0             \* keyPair === null
NoRecipient == ""            \* selectedRecipient === ''
NoEnvelope == [iv |-> 0, data |-> << >>, timestamp |-> 0]
NoStoreCall == [op |-> "none", ipfsHash |-> EmptyString, content |-> NoEnvelope,
                status |-> "none", error |-> "", gatewayErrors |-> << >>,
                contacted |-> << >>, node |-> "none", gateways |-> << >>]
NoResult == [status |-> "none", ret |-> 0, error |-> ""]
NoCryptoCall == [op |-> "none", message |-> << >>, privateKey |-> 0,
                 publicKey |-> EmptyBytes, otherPrivateKey |-> 0,
                 otherPublicKey |-> EmptyBytes, envelope |-> NoEnvelope,
                 status |-> "none", ret |-> << >>,
                 secret |-> NoResult, otherSecret |-> NoResult]
NoComposer == [pc |-> "idle", sending |-> FALSE, progress |-> 0, error |-> "",
               success |-> FALSE, recipient |-> "", message |-> << >>,
               recipientPublicKey |-> EmptyBytes, encryptedMessage |-> NoEnvelope,
               messageHash |-> ZeroHash, ipfsHash |-> EmptyString,
               outcome |-> "none", progressLog |-> << >>]
NoSend == [sender |-> ZeroAddress, status |-> "idle", error |-> ""]

\* an account address as the wallet reports it: a string whose letters may be
\* upper case (symbols above 10) or lower case; '' and null are the empty one
NoAccount      == << >>
AccountStrings == {<<11>>, <<1>>, <<2>>}
Passwords      == {1, 2}
BlankPassword  == 0                      \* !password.trim()
\* a value of the keyPair state and of a parsed key file: null, a key pair
\* object, or a JSON value that is no object
NullKeys == [kind |-> "null", privateKey |-> 0, publicKey |-> EmptyBytes]
NoItem   == [present |-> FALSE, password |-> 0, text |-> << >>]
NoSaved  == [saved |-> FALSE, keyPair |-> NullKeys, password |-> 0]
NoKeyCall == [op |-> "none", userAddress |-> NoAccount, password |-> 0,
              keyPair |-> NullKeys, ret |-> NullKeys, ok |-> FALSE]
NoKeyMgmt == [account |-> NoAccount, keyPair |-> NullKeys, hasStored |-> FALSE]

\* utils/ipfs: a client handle is a number, null is 0; IPFS_CONFIGS has two
\* entries and currentConfig is one of them, null (0) or the gateway fallback
NullClient     == 0
IpfsConfigs    == 1..2
NoConfig       == 0
GatewayFallbackConfig == 3
InitCallers    == {1, 2}
NoIpfsModule == [ipfsClient |-> NullClient, isConnected |-> FALSE,
                 currentConfig |-> NoConfig]
NoInitCall   == [pc |-> "idle", config |-> NoConfig, handle |-> NullClient,
                 calls |-> 0, outcome |-> "none", ret |-> NullClient]
NoFetchOp    == [pc |-> "idle", id |-> 0, gateway |-> 0, outcome |-> "none",
                 error |-> ""]
NoListener   == [active |-> FALSE, since |-> 0, delivered |-> {}]
NoDerived    == [status |-> "none", ret |-> << >>, error |-> ""]
NoDeriveCall == [op |-> "none", privateKey |-> 0, coordinates |-> << >>,
                 uncompressed |-> NoDerived, hex |-> NoDerived, bare |-> NoDerived]

----------------------------------------------------------------------------
(* MessageAnchor.sol *)

\* the require chain of anchorMessage: the first failing reason, or "ok"
AnchorRequire_NoSelfCheck(sender, to, messageHash, ipfsHash) ==
    IF to = ZeroAddress THEN "Invalid recipient address"
    ELSE IF messageHash = ZeroHash THEN "Invalid message hash"
    ELSE IF ~(Len(ipfsHash) > 0) THEN "IPFS hash cannot be empty"
    ELSE "ok"

AnchorRequire(sender, to, messageHash, ipfsHash) ==
    IF to = ZeroAddress THEN "Invalid recipient address"
    ELSE IF messageHash = ZeroHash THEN "Invalid message hash"
    ELSE IF ~(Len(ipfsHash) > 0) THEN "IPFS hash cannot be empty"
    ELSE IF to = sender THEN "Cannot send message to yourself"
    ELSE "ok"

\* Message({from: msg.sender, to, messageHash, ipfsHash, timestamp: block.timestamp})
NewMessage(sender, to, messageHash, ipfsHash, blockTime) ==
    [from |-> sender, to |-> to, messageHash |-> messageHash,
     ipfsHash |-> ipfsHash, timestamp |-> blockTime]

\* messages.push(newMessage)
PushMessage_Overwrite(msgs, m) ==
    IF Len(msgs) > 0 THEN [msgs EXCEPT ![Len(msgs)] = m] ELSE Append(msgs, m)

PushMessage(msgs, m) == Append(msgs, m)

\* uint256 messageId = messages.length - 1   (evaluated after the push)
NewMessageId_NoDecrement(msgs) == Len(msgs)

NewMessageId(msgs) == Len(msgs) - 1

\* userMessages[msg.sender].push(messageId); userMessages[to].push(messageId)
PushUserMessages_SenderOnly(um, sender, to, messageId) ==
    [um EXCEPT ![sender] = Append(@, messageId)]

PushUserMessages(um, sender, to, messageId) ==
    LET um1 == [um EXCEPT ![sender] = Append(@, messageId)]
    IN  [um1 EXCEPT ![to] = Append(@, messageId)]

\* emit MessageAnchored(messageId, msg.sender, to, messageHash, ipfsHash)
MessageAnchored(messageId, sender, to, messageHash, ipfsHash) ==
    [messageId |-> messageId, from |-> sender, to |-> to,
     messageHash |-> messageHash, ipfsHash |-> ipfsHash]

\* the state change of one anchorMessage transaction mined at blockTime;
\* a failed require reverts the transaction and leaves storage untouched
\* (ethers rejects it at gas estimation, so no block is mined for it)
AnchorMessage(sender, to, messageHash, ipfsHash, blockTime) ==
    LET reason == AnchorRequire(sender, to, messageHash, ipfsHash)
        msgs   == PushMessage(messages,
                      NewMessage(sender, to, messageHash, ipfsHash, blockTime))
        id     == NewMessageId(msgs)
    IN  IF reason = "ok"
           THEN /\ now' = blockTime
                /\ messages' = msgs
                /\ userMessages' = PushUserMessages(userMessages, sender, to, id)
                /\ anchorLog' = Append(anchorLog,
                       MessageAnchored(id, sender, to, messageHash, ipfsHash))
                /\ lastCall' = [op |-> "anchorMessage", sender |-> sender,
                                to |-> to, messageHash |-> messageHash,
                                ipfsHash |-> ipfsHash, status |-> "ok",
                                reason |-> ""]
           ELSE /\ UNCHANGED <<messages, userMessages, anchorLog, now>>
                /\ lastCall' = [op |-> "anchorMessage", sender |-> sender,
                                to |-> to, messageHash |-> messageHash,
                                ipfsHash |-> ipfsHash, status |-> "revert",
                                reason |-> reason]

\* the local development chain mines every transaction in a block of its
\* own, each with a later timestamp than the one before
NextBlockTime == now + 1

\* any account submits anchorMessage with any arguments
AnchorMessageCall ==
    \E sender \in Users, to \in Addresses, messageHash \in Hashes,
       ipfsHash \in IpfsHashes, blockTime \in {NextBlockTime} :
        /\ \/ Len(messages) < MaxMsgs
           \/ AnchorRequire(sender, to, messageHash, ipfsHash) # "ok"
        /\ AnchorMessage(sender, to, messageHash, ipfsHash, blockTime)
        /\ UNCHANGED <<browserVars, registryVars, senderVars, viewerVars>>

\* getMessageCount()
GetMessageCount == Len(messages)

\* getMessage(messageId)
GetMessage_OffByOne(messageId) ==
    IF messageId + 1 < Len(messages)
    THEN [status |-> "ok", reason |-> "", ret |-> messages[messageId + 1]]
    ELSE [status |-> "revert", reason |-> "Message does not exist",
          ret |-> NewMessage(ZeroAddress, ZeroAddress, ZeroHash, EmptyString, 0)]

GetMessage(messageId) ==
    IF messageId < Len(messages)
    THEN [status |-> "ok", reason |-> "", ret |-> messages[messageId + 1]]
    ELSE [status |-> "revert", reason |-> "Message does not exist",
          ret |-> NewMessage(ZeroAddress, ZeroAddress, ZeroHash, EmptyString, 0)]

\* getUserMessages(user)
GetUserMessages(user) == userMessages[user]

\* getConversationMessages(user1, user2): linear scan of userMessages[user1]
ConversationMatch_OneDirection(m, user1, user2) ==
    m.from = user1 /\ m.to = user2

ConversationMatch(m, user1, user2) ==
    \/ (m.from = user1 /\ m.to = user2)
    \/ (m.from = user2 /\ m.to = user1)

GetConversationMessages(user1, user2) ==
    LET user1Messages == userMessages[user1]
    IN  SelectSeq(user1Messages,
            LAMBDA id : ConversationMatch(messages[id + 1], user1, user2))

----------------------------------------------------------------------------
(* Browser state: the key files of utils/crypto in localStorage *)

\* String.prototype.toLowerCase
ToLowerCase(str) == [i \in 1..Len(str) |-> IF str[i] > 10 THEN str[i] - 10 ELSE str[i]]

\* a storage key that keeps the address as it was passed
StorageKeyOf_CaseSensitive(userAddress) ==
    IF userAddress = NoAccount THEN <<0>> ELSE <<0, 9>> \o userAddress

\* storageKey: 'blockchain_messenger_keys_' + userAddress.toLowerCase(), or
\* 'blockchain_messenger_keys' when userAddress is null or ''
StorageKeyOf(userAddress) ==
    IF userAddress = NoAccount THEN <<0>> ELSE <<0, 9>> \o ToLowerCase(userAddress)

Scopes   == AccountStrings \cup {NoAccount}
KeySlots == {<<0>>} \cup {<<0, 9>> \o a : a \in AccountStrings}

InitBrowser ==
    /\ keyStorage = [slot \in KeySlots |-> NoItem]
    /\ savedKeys = [scope \in {ToLowerCase(a) : a \in Scopes} |-> NoSaved]
    /\ keyCall = NoKeyCall
    /\ keyMgmt = NoKeyMgmt
    /\ ipfsModule = NoIpfsModule
    /\ initCall = [c \in InitCallers |-> NoInitCall]
    /\ versionOk = {}
    /\ fetchOp = NoFetchOp
    /\ deriveCall = NoDeriveCall
    /\ loadCalls = << >>
    /\ listener = NoListener
    /\ timers = {}

----------------------------------------------------------------------------
(* Specification of the MessageAnchor contract *)

Init ==
    /\ messages = << >>
    /\ userMessages = [a \in Addresses |-> << >>]
    /\ anchorLog = << >>
    /\ now = 1
    /\ lastCall = NoCall
    /\ userPublicKeys = [a \in Addresses |-> EmptyBytes]
    /\ isRegistered = [a \in Addresses |-> FALSE]
    /\ registryLog = << >>
    /\ regCall = NoRegCall
    /\ keyPair = [u \in Users |-> NoKeyPair]
    /\ contentStore = << >>
    /\ tamperCount = 0
    /\ lastSend = NoSend
    /\ selectedRecipient = NoRecipient
    /\ msgList = << >>
    /\ decryptingIds = {}
    /\ loadClosureIds = {}
    /\ tasks = EmptyBag
    /\ ipfsConnected = FALSE
    /\ putLog = << >>
    /\ storeCall = NoStoreCall
    /\ cryptoCall = NoCryptoCall
    /\ composer = NoComposer
    /\ InitBrowser

Next == AnchorMessageCall

Spec == Init /\ [][Next]_vars

----------------------------------------------------------------------------
(* Claims about MessageAnchor, checked under Spec *)

\* ids 0 .. n-1 in increasing order
IdSeq(n) == [i \in 1..n |-> i - 1]

\* ids of the records satisfying P, in insertion order
IdsWhere(P(_)) == SelectSeq(IdSeq(Len(messages)), LAMBDA id : P(messages[id + 1]))

SeqToSet(s) == {s[i] : i \in 1..Len(s)}

BadAnchorArgs(c) ==
    \/ c.to = ZeroAddress
    \/ c.messageHash = ZeroHash
    \/ c.ipfsHash = EmptyString
    \/ c.to = c.sender

\* C2: anchorMessage(to, messageHash, ipfsHash) by sender s is rejected when
\* to is the zero address, messageHash is the zero hash, ipfsHash is empty or
\* to = s; a rejected call leaves the message array and every user's
\* message-id list unchanged.
C2_RejectsInvalidAnchor ==
    [][ lastCall'.op = "anchorMessage" =>
          /\ BadAnchorArgs(lastCall') => lastCall'.status = "revert"
          /\ lastCall'.status = "revert" =>
                /\ messages' = messages
                /\ userMessages' = userMessages ]_vars

C2_Witness ==
    /\ lastCall.op = "anchorMessage"
    /\ lastCall.status = "revert"
    /\ lastCall.reason = "Cannot send message to yourself"
    /\ Len(messages) = 2
    /\ Len(userMessages[lastCall.sender]) > 0

\* C3: a successful anchorMessage(to, hash, addr) by s appends exactly one
\* record {from: s, to, hash, addr} whose id is the message count before the
\* call, raises getMessageCount by exactly 1 and emits MessageAnchored with
\* that id, s, to, hash and addr; ids are 0,1,2,... without gaps.
C3_AnchorAppendsOne ==
    [][ (lastCall'.op = "anchorMessage" /\ lastCall'.status = "ok") =>
          LET c  == lastCall'
              id == GetMessageCount
          IN  /\ Len(messages') = Len(messages) + 1
              /\ GetMessageCount' = GetMessageCount + 1
              /\ SubSeq(messages', 1, Len(messages)) = messages
              /\ messages'[id + 1].from = c.sender
              /\ messages'[id + 1].to = c.to
              /\ messages'[id + 1].messageHash = c.messageHash
              /\ messages'[id + 1].ipfsHash = c.ipfsHash
              /\ anchorLog' = Append(anchorLog,
                     [messageId |-> id, from |-> c.sender, to |-> c.to,
                      messageHash |-> c.messageHash, ipfsHash |-> c.ipfsHash])
              /\ \A i \in 1..Len(anchorLog') : anchorLog'[i].messageId = i - 1
      ]_vars

C3_Witness ==
    /\ lastCall.op = "anchorMessage"
    /\ lastCall.status = "ok"
    /\ Len(messages) = 3
    /\ anchorLog[3].messageId = 2
    /\ anchorLog[3].from = lastCall.sender

\* C4: each successful send creates exactly one anchor record, and once a
\* record with a given id exists its from, to, integrityHash, contentAddress
\* and timestamp never change; no operation modifies or deletes a record and
\* the message count never decreases.
C4_RecordsImmutable ==
    [][ /\ Len(messages') >= Len(messages)
        /\ \A i \in 1..Len(messages) : messages'[i] = messages[i]
        /\ (lastCall'.status = "ok" /\ anchorLog' # anchorLog) =>
               Len(messages') = Len(messages) + 1 ]_vars

C4_Witness ==
    /\ Len(messages) = 3
    /\ messages[1] # messages[2]
    /\ messages[2] # messages[3]
    /\ lastCall.status = "revert"

\* C5: getUserMessages(u) is exactly the ids of the records with from = u or
\* to = u, each once, in increasing id order; each record's id appears in
\* exactly two users' lists, its sender's and its recipient's.
C5_UserMessagesExact ==
    /\ \A u \in Addresses :
          GetUserMessages(u) = IdsWhere(LAMBDA m : m.from = u \/ m.to = u)
    /\ \A id \in 0..(Len(messages) - 1) :
          {u \in Addresses : id \in SeqToSet(GetUserMessages(u))}
              = {messages[id + 1].from, messages[id + 1].to}
    /\ \A id \in 0..(Len(messages) - 1) :
          Cardinality({u \in Addresses : id \in SeqToSet(GetUserMessages(u))}) = 2

C5_Witness ==
    /\ Len(messages) = 3
    /\ GetUserMessages("u1") = <<0, 2>>
    /\ GetUserMessages("u2") = <<0, 1>>
    /\ GetUserMessages("u3") = <<1, 2>>

\* C6: getConversationMessages(a, b) returns exactly the ids of the records
\* with (from = a and to = b) or (from = b and to = a), in insertion order,
\* excluding every record involving a third party, and equals
\* getConversationMessages(b, a).
C6_ConversationExact ==
    \A a \in Addresses, b \in Addresses :
        /\ GetConversationMessages(a, b) =
              IdsWhere(LAMBDA m : \/ (m.from = a /\ m.to = b)
                                  \/ (m.from = b /\ m.to = a))
        /\ GetConversationMessages(a, b) = GetConversationMessages(b, a)

C6_Witness ==
    /\ Len(messages) = 3
    /\ messages[1].from = "u1" /\ messages[1].to = "u2"
    /\ messages[2].from = "u1" /\ messages[2].to = "u3"
    /\ messages[3].from = "u2" /\ messages[3].to = "u1"
    /\ GetConversationMessages("u1", "u2") = <<0, 2>>

\* C7: getMessage(id) returns the record anchored with that id (same from,
\* to, messageHash, ipfsHash and a timestamp greater than 0) for every id
\* below the message count and is rejected with 'Message does not exist' for
\* every id at or above it.
C7_GetMessage ==
    /\ \A i \in 1..Len(anchorLog) :
          LET e == anchorLog[i]
              r == GetMessage(e.messageId)
          IN  /\ r.status = "ok"
              /\ r.ret.from = e.from
              /\ r.ret.to = e.to
              /\ r.ret.messageHash = e.messageHash
              /\ r.ret.ipfsHash = e.ipfsHash
              /\ r.ret.timestamp > 0
    /\ \A id \in 0..(MaxMsgs + 2) :
          IF id < GetMessageCount
          THEN /\ GetMessage(id).status = "ok"
               /\ \E i \in 1..Len(anchorLog) : anchorLog[i].messageId = id
          ELSE /\ GetMessage(id).status = "revert"
               /\ GetMessage(id).reason = "Message does not exist"

C7_Witness ==
    /\ Len(messages) = 2
    /\ GetMessage(1).status = "ok"
    /\ GetMessage(1).ret.from = "u2"
    /\ GetMessage(2).status = "revert"

----------------------------------------------------------------------------
(* IdentityRegistry.sol *)

\* the require chain of registerKey
RegisterRequire_NoDuplicateCheck(sender, publicKey) ==
    IF ~(Len(publicKey) > 0) THEN "Public key cannot be empty"
    ELSE "ok"

RegisterRequire(sender, publicKey) ==
    IF ~(Len(publicKey) > 0) THEN "Public key cannot be empty"
    ELSE IF isRegistered[sender] THEN "User already registered"
    ELSE "ok"

\* the require chain of updateKey
UpdateRequire_NoRegisteredCheck(sender, newPublicKey) ==
    IF ~(Len(newPublicKey) > 0) THEN "Public key cannot be empty"
    ELSE "ok"

UpdateRequire(sender, newPublicKey) ==
    IF ~(Len(newPublicKey) > 0) THEN "Public key cannot be empty"
    ELSE IF ~isRegistered[sender] THEN "User not registered"
    ELSE "ok"

\* registerKey(publicKey) sent by sender
RegisterKey(sender, publicKey) ==
    LET reason == RegisterRequire(sender, publicKey)
    IN  IF reason = "ok"
        THEN /\ userPublicKeys' = [userPublicKeys EXCEPT ![sender] = publicKey]
             /\ isRegistered' = [isRegistered EXCEPT ![sender] = TRUE]
             /\ registryLog' = Append(registryLog,
                    [event |-> "KeyRegistered", user |-> sender, key |-> publicKey])
             /\ regCall' = [op |-> "registerKey", sender |-> sender,
                            key |-> publicKey, status |-> "ok", reason |-> ""]
        ELSE /\ UNCHANGED <<userPublicKeys, isRegistered, registryLog>>
             /\ regCall' = [op |-> "registerKey", sender |-> sender,
                            key |-> publicKey, status |-> "revert",
                            reason |-> reason]

\* updateKey(newPublicKey) sent by sender
UpdateKey(sender, newPublicKey) ==
    LET reason == UpdateRequire(sender, newPublicKey)
    IN  IF reason = "ok"
        THEN /\ userPublicKeys' = [userPublicKeys EXCEPT ![sender] = newPublicKey]
             /\ UNCHANGED isRegistered
             /\ registryLog' = Append(registryLog,
                    [event |-> "KeyUpdated", user |-> sender, key |-> newPublicKey])
             /\ regCall' = [op |-> "updateKey", sender |-> sender,
                            key |-> newPublicKey, status |-> "ok", reason |-> ""]
        ELSE /\ UNCHANGED <<userPublicKeys, isRegistered, registryLog>>
             /\ regCall' = [op |-> "updateKey", sender |-> sender,
                            key |-> newPublicKey, status |-> "revert",
                            reason |-> reason]

RegisterKeyCall ==
    \E sender \in Users, publicKey \in KeyBytes :
        /\ \/ Len(registryLog) < MaxRegEvents
           \/ RegisterRequire(sender, publicKey) # "ok"
        /\ RegisterKey(sender, publicKey)
        /\ UNCHANGED <<browserVars, anchorVars, senderVars, viewerVars>>

UpdateKeyCall ==
    \E sender \in Users, newPublicKey \in KeyBytes :
        /\ \/ Len(registryLog) < MaxRegEvents
           \/ UpdateRequire(sender, newPublicKey) # "ok"
        /\ UpdateKey(sender, newPublicKey)
        /\ UNCHANGED <<browserVars, anchorVars, senderVars, viewerVars>>

\* getKey(user)
GetKey_NoRequire(user) ==
    [status |-> "ok", reason |-> "", ret |-> userPublicKeys[user]]

GetKey(user) ==
    IF isRegistered[user]
    THEN [status |-> "ok", reason |-> "", ret |-> userPublicKeys[user]]
    ELSE [status |-> "revert", reason |-> "User not registered",
          ret |-> EmptyBytes]

\* getUserRegistrationStatus(user)
GetUserRegistrationStatus(user) == isRegistered[user]

NextRegistry == RegisterKeyCall \/ UpdateKeyCall

SpecRegistry == Init /\ [][NextRegistry]_vars

----------------------------------------------------------------------------
(* Claims about IdentityRegistry, checked under SpecRegistry *)

\* C8: registerKey(publicKey) by u succeeds only if publicKey is non-empty
\* and u is not yet registered; on success isRegistered(u) becomes true and
\* KeyRegistered is emitted; an empty key or a second registerKey by the same
\* user is rejected and leaves the stored key and registration flag unchanged.
C8_RegisterKey ==
    [][ regCall'.op = "registerKey" =>
          LET u == regCall'.sender
              k == regCall'.key
          IN  /\ regCall'.status = "ok" =>
                    /\ k # EmptyBytes
                    /\ ~isRegistered[u]
                    /\ isRegistered'[u]
                    /\ registryLog' = Append(registryLog,
                           [event |-> "KeyRegistered", user |-> u, key |-> k])
              /\ (k = EmptyBytes \/ isRegistered[u]) =>
                    /\ regCall'.status = "revert"
                    /\ userPublicKeys' = userPublicKeys
                    /\ isRegistered' = isRegistered ]_vars

C8_Witness ==
    /\ regCall.op = "registerKey"
    /\ regCall.status = "revert"
    /\ regCall.reason = "User already registered"
    /\ regCall.key = PublicKeyOf(2)
    /\ userPublicKeys[regCall.sender] = PublicKeyOf(1)

\* C9: updateKey(newPublicKey) by u is rejected when u is not registered or
\* newPublicKey is empty, leaving the registry unchanged; on success it
\* replaces u's stored key only, keeps u registered and changes no other
\* user's key or registration flag.
C9_UpdateKey ==
    [][ regCall'.op = "updateKey" =>
          LET u == regCall'.sender
              k == regCall'.key
          IN  /\ (~isRegistered[u] \/ k = EmptyBytes) =>
                    /\ regCall'.status = "revert"
                    /\ userPublicKeys' = userPublicKeys
                    /\ isRegistered' = isRegistered
                    /\ registryLog' = registryLog
              /\ regCall'.status = "ok" =>
                    /\ userPublicKeys'[u] = k
                    /\ isRegistered'[u]
                    /\ isRegistered' = isRegistered
                    /\ \A v \in Addresses \ {u} :
                          userPublicKeys'[v] = userPublicKeys[v] ]_vars

C9_Witness ==
    /\ regCall.op = "updateKey"
    /\ regCall.status = "ok"
    /\ regCall.key = PublicKeyOf(2)
    /\ \E v \in Users \ {regCall.sender} :
          isRegistered[v] /\ userPublicKeys[v] = PublicKeyOf(1)

\* the key carried by the latest KeyRegistered / KeyUpdated event of user u
RECURSIVE LatestLoggedKey(_, _)
LatestLoggedKey(log, u) ==
    IF log = << >> THEN EmptyBytes
    ELSE IF log[Len(log)].user = u THEN log[Len(log)].key
    ELSE LatestLoggedKey(SubSeq(log, 1, Len(log) - 1), u)

\* C10: getKey(u) returns the key most recently registered or updated by u
\* if u is registered and is rejected with 'User not registered' otherwise;
\* a user once registered stays registered forever and its stored key is
\* never empty.
C10_GetKey ==
    /\ [](\A u \in Addresses :
            IF isRegistered[u]
            THEN /\ GetKey(u).status = "ok"
                 /\ GetKey(u).ret = LatestLoggedKey(registryLog, u)
                 /\ GetKey(u).ret # EmptyBytes
            ELSE /\ GetKey(u).status = "revert"
                 /\ GetKey(u).reason = "User not registered")
    /\ [][\A u \in Addresses : isRegistered[u] => isRegistered'[u]]_vars

C10_Witness ==
    /\ isRegistered["u1"]
    /\ ~isRegistered["u2"]
    /\ Len(registryLog) >= 3
    /\ registryLog[1] = [event |-> "KeyRegistered", user |-> "u1", key |-> PublicKeyOf(1)]
    /\ GetKey("u1").ret = PublicKeyOf(2)
    /\ GetKey("u2").status = "revert"

----------------------------------------------------------------------------
(* Frontend: keys, encryption and hashing (utils/crypto.js) *)

MaxSends == 2            \* handleSend runs that reach the directory
MaxTasks == 2            \* decryptMessage invocations in flight at once

MaxTampers == 1          \* replacements of stored content by a third party

Viewer   == "u2"             \* the account whose MessageList is modelled
Sessions == {"u1", "u2"}     \* accounts with an open browser session

\* a string is a sequence of symbols; a text typed by a user uses TextSymbols,
\* a ciphertext any of CipherBytes; the byte 3 never occurs in well-formed UTF-8
TextSymbols == {1, 2}
CipherBytes == 0..3      \* values of the bytes of the hex 'data' field
Texts       == {<<1>>, <<2>>}    \* message contents (non-blank)
IVs         == {0}       \* CryptoJS.lib.WordArray.random(96/8)

NoSecret == 0

\* a derivation in which the two parties' keys enter symmetrically
DeriveSharedSecret_Commutative(privateKey, publicKey) ==
    LET cleanPublicKey == IF Len(publicKey) > 0 /\ publicKey[1] = 4
                          THEN Tail(publicKey) ELSE publicKey
    IN  IF Len(cleanPublicKey) < 1
        THEN [status |-> "error", ret |-> NoSecret,
              error |-> "Failed to create shared encryption key: Public key too short"]
        ELSE [status |-> "ok", ret |-> (10 + privateKey) + cleanPublicKey[1],
              error |-> ""]

\* deriveSharedSecret(privateKey, publicKey): keccak256(privateKey || x),
\* x being the 64 hex characters that follow the 0x04 prefix; a public key
\* with fewer than 64 characters after the prefix is rejected
DeriveSharedSecret(privateKey, publicKey) ==
    LET cleanPublicKey == IF Len(publicKey) > 0 /\ publicKey[1] = 4
                          THEN Tail(publicKey) ELSE publicKey
    IN  IF Len(cleanPublicKey) < 1
        THEN [status |-> "error", ret |-> NoSecret,
              error |-> "Failed to create shared encryption key: Public key too short"]
        ELSE [status |-> "ok", ret |-> 100 * privateKey + cleanPublicKey[1],
              error |-> ""]

\* the AES-CTR keystream byte of (key, iv) at position i
KeyStream(key, iv, i) == (key + 3 * iv + i) % Cardinality(CipherBytes)

\* CTR mode: each byte is XORed with the keystream byte, to encrypt and to decrypt
Xor(a, b) == 2 * (((a \div 2) + (b \div 2)) % 2) + ((a + b) % 2)

\* encryptMessage(message, recipientPublicKey, senderPrivateKey):
\* the envelope {iv, data, timestamp}; any failure is rethrown as
\* 'Failed to encrypt message'
EncryptMessage(message, recipientPublicKey, senderPrivateKey, iv, dateNow) ==
    LET sharedSecret == DeriveSharedSecret(senderPrivateKey, recipientPublicKey)
    IN  IF sharedSecret.status # "ok"
        THEN [status |-> "error", ret |-> NoEnvelope,
              error |-> "Failed to encrypt message"]
        ELSE [status |-> "ok",
              ret |-> [iv |-> iv,
                       data |-> [i \in 1..Len(message) |->
                                   Xor(message[i], KeyStream(sharedSecret.ret, iv, i))],
                       timestamp |-> dateNow],
              error |-> ""]

\* decrypted.toString(CryptoJS.enc.Utf8) throws on bytes that are not UTF-8
Utf8Valid_AsciiOnly(bytes) == \A i \in 1..Len(bytes) : bytes[i] < 2

Utf8Valid(bytes) == \A i \in 1..Len(bytes) : bytes[i] # 3

\* decryptMessage(encryptedMessage, senderPublicKey, recipientPrivateKey) of
\* utils/crypto: the text, or an Error 'Failed to decrypt message: ...'
DecryptMessage(encryptedMessage, senderPublicKey, recipientPrivateKey) ==
    LET sharedSecret == DeriveSharedSecret(recipientPrivateKey, senderPublicKey)
        decrypted == [i \in 1..Len(encryptedMessage.data) |->
                        Xor(encryptedMessage.data[i],
                            KeyStream(sharedSecret.ret, encryptedMessage.iv, i))]
        failure ==
            IF Len(encryptedMessage.data) = 0
            THEN "Failed to decrypt message: Invalid encrypted message structure"
            ELSE IF sharedSecret.status # "ok"
            THEN "Failed to decrypt message: " \o sharedSecret.error
            ELSE IF ~Utf8Valid(decrypted)
            THEN "Failed to decrypt message: Malformed UTF-8 data"
            ELSE IF Len(decrypted) = 0
            THEN "Failed to decrypt message: Decryption failed - empty result"
            ELSE ""
    IN  IF failure # ""
        THEN [status |-> "error", ret |-> << >>, error |-> failure]
        ELSE [status |-> "ok", ret |-> decrypted, error |-> ""]

\* an injective numbering of byte strings
RECURSIVE BytesCode(_)
BytesCode(bytes) ==
    IF bytes = << >> THEN 0
    ELSE (Cardinality(CipherBytes) + 1) * BytesCode(SubSeq(bytes, 1, Len(bytes) - 1))
           + bytes[Len(bytes)] + 1

\* createMessageHash(encryptedMessage): keccak256 of the envelope's UTF-8
\* bytes; collision free and never bytes32(0)
CreateMessageHash(encryptedMessage) ==
    1 + encryptedMessage.iv
      + Cardinality(IVs) * (encryptedMessage.timestamp
          + 100 * BytesCode(encryptedMessage.data))

\* Calls of the utils/crypto functions on their own
MaxPayloadLen == 2       \* symbols of an encrypted payload

RECURSIVE SeqsUpTo(_, _)
SeqsUpTo(S, n) ==
    IF n = 0 THEN {<< >>}
    ELSE LET shorter == SeqsUpTo(S, n - 1)
         IN  shorter \cup {Append(q, x) : q \in {r \in shorter : Len(r) = n - 1},
                                          x \in S}

Payloads == SeqsUpTo(TextSymbols, MaxPayloadLen)

\* public keys as getPublicKey may return them: the keys generateKeyPair
\* produces, a key with the x of PublicKeyOf(1) and another y, the same point
\* without the 04 prefix, and a key with no coordinates
PublicKeys == {PublicKeyOf(k) : k \in PrivateKeys}
                \cup {<<4, 11, 99>>, <<11, 21>>, <<4>>}

EncryptMessageCall ==
    \E message \in Payloads, recipientPublicKey \in PublicKeys,
       senderPrivateKey \in PrivateKeys, iv \in IVs :
        LET r == EncryptMessage(message, recipientPublicKey, senderPrivateKey, iv, now)
        IN  /\ cryptoCall' = [NoCryptoCall EXCEPT
                                 !.op = "encrypt", !.message = message,
                                 !.privateKey = senderPrivateKey,
                                 !.publicKey = recipientPublicKey,
                                 !.envelope = r.ret, !.status = r.status]
            /\ UNCHANGED <<browserVars, anchorVars, registryVars, keyPair, contentStore,
                           tamperCount, lastSend, ipfsConnected, putLog, storeCall,
                           composer, viewerVars>>

\* decryptMessage applied to the envelope of the latest encryptMessage
DecryptMessageCall ==
    \E senderPublicKey \in PublicKeys, recipientPrivateKey \in PrivateKeys :
        LET r == DecryptMessage(cryptoCall.envelope, senderPublicKey,
                                recipientPrivateKey)
        IN  /\ cryptoCall.op = "encrypt"
            /\ cryptoCall.status = "ok"
            /\ cryptoCall' = [cryptoCall EXCEPT
                                 !.op = "decrypt",
                                 !.otherPrivateKey = recipientPrivateKey,
                                 !.otherPublicKey = senderPublicKey,
                                 !.status = r.status, !.ret = r.ret]
            /\ UNCHANGED <<browserVars, anchorVars, registryVars, keyPair, contentStore,
                           tamperCount, lastSend, ipfsConnected, putLog, storeCall,
                           composer, viewerVars>>

\* two calls of deriveSharedSecret
DeriveSharedSecretCall ==
    \E privateKey \in PrivateKeys, publicKey \in PublicKeys,
       otherPrivateKey \in PrivateKeys, otherPublicKey \in PublicKeys :
        /\ cryptoCall' = [NoCryptoCall EXCEPT
                             !.op = "derive",
                             !.privateKey = privateKey, !.publicKey = publicKey,
                             !.otherPrivateKey = otherPrivateKey,
                             !.otherPublicKey = otherPublicKey,
                             !.secret = DeriveSharedSecret(privateKey, publicKey),
                             !.otherSecret =
                                 DeriveSharedSecret(otherPrivateKey, otherPublicKey)]
        /\ UNCHANGED <<browserVars, anchorVars, registryVars, keyPair, contentStore,
                       tamperCount, lastSend, ipfsConnected, putLog, storeCall,
                       composer, viewerVars>>

NextCrypto == EncryptMessageCall \/ DecryptMessageCall \/ DeriveSharedSecretCall

SpecCrypto == Init /\ [][NextCrypto]_vars

----------------------------------------------------------------------------
(* utils/crypto deriveSharedSecret on the characters of the public key *)

CoordLen == 3            \* hex characters of one coordinate (64 in the code)

\* a key string is a sequence of characters: the hex digits 0..15 and 'x'
CharX     == 16
HexDigits == {0, 4}      \* '0', '4'

\* String.prototype.startsWith(prefix)
StartsWith(str, prefix) ==
    /\ Len(str) >= Len(prefix)
    /\ SubSeq(str, 1, Len(prefix)) = prefix

\* String.prototype.slice(from, to) for 0 <= from, to
Slice(str, from, to) ==
    LET e == IF to < Len(str) THEN to ELSE Len(str)
    IN  IF from >= e THEN << >> ELSE SubSeq(str, from + 1, e)

\* lines 163-177: cleanPublicKey, by the first prefix that matches
CleanPublicKey(publicKey) ==
    IF StartsWith(publicKey, <<0, CharX, 0, 4>>)
    THEN Slice(publicKey, 4, Len(publicKey))
    ELSE IF StartsWith(publicKey, <<0, CharX>>)
         THEN Slice(publicKey, 2, Len(publicKey))
         ELSE publicKey

\* keccak256 of privateKey || x, taken as collision free
Keccak256(privateKey, x) == <<privateKey>> \o x

\* deriveSharedSecret(privateKey, publicKey) for a public key given as a string
DeriveSharedSecretOfString(privateKey, publicKey) ==
    LET cleanPublicKey == CleanPublicKey(publicKey)
        x == Slice(cleanPublicKey, 0, CoordLen)
    IN  IF Len(cleanPublicKey) < CoordLen
        THEN [status |-> "error", ret |-> << >>,
              error |-> "Failed to create shared encryption key: Public key too short"]
        ELSE [status |-> "ok", ret |-> Keccak256(privateKey, x), error |-> ""]

\* the three accepted encodings of the coordinates x || y
EncodeUncompressed(coordinates) == <<0, CharX, 0, 4>> \o coordinates
EncodeHex(coordinates)          == <<0, CharX>> \o coordinates
EncodeBare(coordinates)         == coordinates

\* coordinate parts: whole keys x || y and parts shorter than that
CoordinateParts == SeqsUpTo(HexDigits, 2 * CoordLen)

\* deriveSharedSecret applied to each encoding of the same coordinates
DeriveEncodingsCall ==
    \E privateKey \in PrivateKeys, coordinates \in CoordinateParts :
        /\ deriveCall' =
              [op |-> "derive", privateKey |-> privateKey,
               coordinates |-> coordinates,
               uncompressed |-> DeriveSharedSecretOfString(
                                   privateKey, EncodeUncompressed(coordinates)),
               hex  |-> DeriveSharedSecretOfString(privateKey, EncodeHex(coordinates)),
               bare |-> DeriveSharedSecretOfString(privateKey, EncodeBare(coordinates))]
        /\ UNCHANGED <<anchorVars, registryVars, senderVars, viewerVars, keyVars,
                       ipfsVars, fetchOp, listVars>>

NextEncodings == DeriveEncodingsCall

SpecEncodings == Init /\ [][NextEncodings]_vars

----------------------------------------------------------------------------
(* Frontend: content store client (utils/ipfs.js) *)

Abs(n) == IF n < 0 THEN 0 - n ELSE n

\* the loop of createContentHash: hash = ((hash << 5) - hash) + char;
\* hash & hash wraps to 32 bits, which the short contents explored never reach
RECURSIVE RollingHash(_, _)
RollingHash(hash, chars) ==
    IF chars = << >> THEN hash
    ELSE RollingHash(31 * hash + Head(chars), Tail(chars))

\* createContentHash(content): 'fallback_' + |rolling hash| + '_' + Date.now()
CreateContentHash(content, dateNow) ==
    FallbackPrefix \o
        <<Abs(RollingHash(0, <<content.iv>> \o content.data \o <<content.timestamp>>)),
          dateNow>>

\* uploadToIPFS(encryptedMessage): the address returned by the tier that
\* served the upload; the store node derives it from the content
UploadToIPFS(encryptedMessage, tier, dateNow) ==
    IF tier = "node"
    THEN CidPrefix \o <<CreateMessageHash(encryptedMessage)>>
    ELSE CreateContentHash(encryptedMessage, dateNow)

StoreTiers == {"node", "fallback"}

\* a prefix test that never recognises a fallback address
StartsWithFallback_Never(ipfsHash) == FALSE

StartsWithFallback(ipfsHash) ==
    Len(ipfsHash) > 0 /\ SubSeq(ipfsHash, 1, 1) = FallbackPrefix

\* the sources retrieveFromIPFS may contact for an address without the
\* fallback prefix: the local store node, then the public gateways in order
LocalNode    == 0
GatewayCount == 4
Gateways     == 1..GatewayCount
GatewayOutcomes == {"ok", "notOk", "error"}   \* response.ok, !response.ok, fetch throws
RetrieveEnvs == [node : {"ok", "error"}, gateways : [Gateways -> GatewayOutcomes]]

\* what a contacted source answers: content it does not hold is never served
SourceOutcome(ipfsHash, outcome) ==
    IF outcome = "ok" /\ ipfsHash \notin DOMAIN contentStore THEN "error" ELSE outcome

\* a loop that gives up at the first gateway answering with a non-OK status
RECURSIVE TryGateways_StopOnNotOk(_, _, _)
TryGateways_StopOnNotOk(ipfsHash, env, g) ==
    IF g > GatewayCount
    THEN [status |-> "error", ret |-> NoEnvelope, contacted |-> << >>]
    ELSE IF SourceOutcome(ipfsHash, env.gateways[g]) = "ok"
    THEN [status |-> "ok", ret |-> contentStore[ipfsHash], contacted |-> <<g>>]
    ELSE IF env.gateways[g] = "notOk"
    THEN [status |-> "error", ret |-> NoEnvelope, contacted |-> <<g>>]
    ELSE LET rest == TryGateways_StopOnNotOk(ipfsHash, env, g + 1)
         IN  [rest EXCEPT !.contacted = <<g>> \o @]

\* the loop 'for (const gateway of gateways)' from gateway g on
RECURSIVE TryGateways(_, _, _)
TryGateways(ipfsHash, env, g) ==
    IF g > GatewayCount
    THEN [status |-> "error", ret |-> NoEnvelope, contacted |-> << >>]
    ELSE IF SourceOutcome(ipfsHash, env.gateways[g]) = "ok"
    THEN [status |-> "ok", ret |-> contentStore[ipfsHash], contacted |-> <<g>>]
    ELSE LET rest == TryGateways(ipfsHash, env, g + 1)
         IN  [rest EXCEPT !.contacted = <<g>> \o @]

\* retrieveFromIPFS(ipfsHash) when the sources answer as in env: the stored
\* string or an Error, and the sources contacted, in order; gatewayErrors is
\* what the Error thrown carries of the gateways' errors: they are passed to
\* console.warn only, the Error has a fixed message
RetrieveFromIPFSVia(ipfsHash, env) ==
    IF StartsWithFallback(ipfsHash)
    THEN IF ipfsHash \in DOMAIN contentStore
         THEN [status |-> "ok", ret |-> contentStore[ipfsHash], error |-> "",
               gatewayErrors |-> << >>, contacted |-> << >>]
         ELSE [status |-> "error", ret |-> NoEnvelope,
               error |-> "Failed to retrieve message: Message not found in fallback storage",
               gatewayErrors |-> << >>, contacted |-> << >>]
    ELSE LET nodeTried   == ipfsConnected
             nodeOk      == nodeTried /\ SourceOutcome(ipfsHash, env.node) = "ok"
             viaGateways == TryGateways(ipfsHash, env, 1)
             viaNode     == IF nodeTried THEN <<LocalNode>> ELSE << >>
         IN  IF nodeOk
             THEN [status |-> "ok", ret |-> contentStore[ipfsHash], error |-> "",
                   gatewayErrors |-> << >>, contacted |-> viaNode]
             ELSE IF viaGateways.status = "ok"
             THEN [status |-> "ok", ret |-> viaGateways.ret, error |-> "",
                   gatewayErrors |-> << >>,
                   contacted |-> viaNode \o viaGateways.contacted]
             ELSE [status |-> "error", ret |-> NoEnvelope,
                   error |-> "Failed to retrieve message: Failed to retrieve message from all sources",
                   gatewayErrors |-> << >>,
                   contacted |-> viaNode \o viaGateways.contacted]

\* retrieveFromIPFS(ipfsHash) when every source answers (reachable) or none does
RetrieveFromIPFS(ipfsHash, reachable) ==
    LET answer == IF reachable THEN "ok" ELSE "error"
        r == RetrieveFromIPFSVia(ipfsHash,
                 [node |-> answer, gateways |-> [g \in Gateways |-> answer]])
    IN  [status |-> r.status, ret |-> r.ret, error |-> r.error]

\* what the environment does to an upload: whether initializeIPFS finds a
\* node, whether ipfsClient.add succeeds, whether localStorage.setItem succeeds
UploadEnvs == [connect : BOOLEAN, add : BOOLEAN, setItem : BOOLEAN]

\* uploadToIPFS(encryptedMessage) in the environment env: the address returned
\* or the Error thrown, whether the content was stored, and the connection flag
UploadToIPFSVia(encryptedMessage, env, dateNow) ==
    LET connected == ipfsConnected \/ env.connect
        hash      == UploadToIPFS(encryptedMessage, "fallback", dateNow)
    IN  IF connected /\ env.add
        THEN [status |-> "ok", ret |-> UploadToIPFS(encryptedMessage, "node", dateNow),
              error |-> "", tier |-> "node", stored |-> TRUE,
              connected |-> connected]
        ELSE IF connected
        THEN \* ipfsClient.add threw: the catch block, 'last resort'
             IF env.setItem
             THEN [status |-> "ok", ret |-> hash, error |-> "", tier |-> "fallback",
                   stored |-> TRUE, connected |-> connected]
             ELSE [status |-> "error", ret |-> EmptyString,
                   error |-> "Failed to store message", tier |-> "none",
                   stored |-> FALSE, connected |-> connected]
        ELSE \* no client: the else branch; a failing setItem is only logged
             [status |-> "ok", ret |-> hash, error |-> "", tier |-> "fallback",
              stored |-> env.setItem, connected |-> connected]

\* the store after content was written at an address
StoreAt(store, ipfsHash, content) ==
    [a \in DOMAIN store \cup {ipfsHash} |->
        IF a = ipfsHash THEN content ELSE store[a]]

MaxPuts == 2             \* uploadToIPFS calls that return an address

\* the envelopes uploaded and the times of upload explored for the store alone
StoreContents == {[iv |-> 0, data |-> <<d>>, timestamp |-> 1] : d \in {0, 1}}
StoreTimes    == {1, 2}

\* a call of uploadToIPFS
UploadToIPFSCall ==
    \E encryptedMessage \in StoreContents, env \in UploadEnvs, dateNow \in StoreTimes :
        LET r == UploadToIPFSVia(encryptedMessage, env, dateNow)
        IN  /\ Len(putLog) < MaxPuts
            /\ contentStore' = IF r.stored
                               THEN StoreAt(contentStore, r.ret, encryptedMessage)
                               ELSE contentStore
            /\ ipfsConnected' = r.connected
            /\ putLog' = IF r.status = "ok"
                         THEN Append(putLog, [content |-> encryptedMessage,
                                              ipfsHash |-> r.ret, tier |-> r.tier])
                         ELSE putLog
            /\ storeCall' = [NoStoreCall EXCEPT
                                !.op = "put", !.ipfsHash = r.ret,
                                !.content = encryptedMessage, !.status = r.status,
                                !.error = r.error]
            /\ UNCHANGED <<browserVars, anchorVars, registryVars, keyPair, tamperCount, lastSend,
                           cryptoCall, composer, viewerVars>>

\* the addresses asked for and the stores they are asked from when
\* retrieveFromIPFS is explored on its own: the two addresses one envelope can
\* get, each present or absent
RetrieveContent   == [iv |-> 0, data |-> <<1>>, timestamp |-> 1]
RetrieveAddresses == {UploadToIPFS(RetrieveContent, tier, 1) : tier \in StoreTiers}
RetrieveStores ==
    {[a \in held |-> RetrieveContent] : held \in SUBSET RetrieveAddresses}

\* a call of retrieveFromIPFS
RetrieveFromIPFSCall ==
    \E ipfsHash \in RetrieveAddresses, env \in RetrieveEnvs :
        LET r == RetrieveFromIPFSVia(ipfsHash, env)
        IN  /\ storeCall' = [op |-> "get", ipfsHash |-> ipfsHash, content |-> r.ret,
                             status |-> r.status, error |-> r.error,
                             gatewayErrors |-> r.gatewayErrors,
                             contacted |-> r.contacted,
                             node |-> env.node, gateways |-> env.gateways]
            /\ UNCHANGED <<browserVars, anchorVars, registryVars, keyPair, contentStore,
                           tamperCount, lastSend, ipfsConnected, putLog,
                           cryptoCall, composer, viewerVars>>

NextStore == UploadToIPFSCall

SpecStore == Init /\ [][NextStore]_vars

\* retrieveFromIPFS in every state of the cache, the network and the connection
InitRetrieve ==
    /\ messages = << >>
    /\ userMessages = [a \in Addresses |-> << >>]
    /\ anchorLog = << >>
    /\ now = 1
    /\ lastCall = NoCall
    /\ userPublicKeys = [a \in Addresses |-> EmptyBytes]
    /\ isRegistered = [a \in Addresses |-> FALSE]
    /\ registryLog = << >>
    /\ regCall = NoRegCall
    /\ keyPair = [u \in Users |-> NoKeyPair]
    /\ contentStore \in RetrieveStores
    /\ tamperCount = 0
    /\ lastSend = NoSend
    /\ selectedRecipient = NoRecipient
    /\ msgList = << >>
    /\ decryptingIds = {}
    /\ loadClosureIds = {}
    /\ tasks = EmptyBag
    /\ ipfsConnected \in BOOLEAN
    /\ putLog = << >>
    /\ storeCall = NoStoreCall
    /\ cryptoCall = NoCryptoCall
    /\ composer = NoComposer
    /\ InitBrowser

NextRetrieve == RetrieveFromIPFSCall

SpecRetrieve == InitRetrieve /\ [][NextRetrieve]_vars

\* the content held by a gateway, a store node or localStorage is outside the
\* application's control: anything with access can replace the stored bytes
TamperStore ==
    \E ipfsHash \in DOMAIN contentStore, d \in CipherBytes :
        /\ tamperCount < MaxTampers
        /\ <<d>> # contentStore[ipfsHash].data
        /\ contentStore' = [contentStore EXCEPT ![ipfsHash].data = <<d>>]
        /\ tamperCount' = tamperCount + 1
        /\ UNCHANGED <<browserVars, anchorVars, registryVars, keyPair, lastSend, viewerVars,
                       clientVars>>

----------------------------------------------------------------------------
(* Frontend: KeyManagement.handleGenerateKeys, MessageComposer.handleSend *)

\* handleGenerateKeys: generateKeyPair, setKeyPair, then registerPublicKey;
\* a rejected registration is reported and leaves the new key pair in place
\* the private key a session draws: distinct sessions draw distinct keys
GeneratedKeys(account) == IF account = Viewer THEN {2} ELSE {1}

HandleGenerateKeys(account) ==
    \E privateKey \in GeneratedKeys(account) :
        /\ keyPair[account] = NoKeyPair
        /\ Len(registryLog) < MaxRegEvents
        /\ keyPair' = [keyPair EXCEPT ![account] = privateKey]
        /\ RegisterKey(account, PublicKeyOf(privateKey))
        /\ UNCHANGED <<browserVars, anchorVars, contentStore, lastSend, tamperCount, clientVars>>

\* handleSend: key lookup, encrypt, hash, upload, anchor
HandleSendOf(account, recipient, message, iv, tier) ==
        LET key              == GetKey(recipient)
            encrypted        == EncryptMessage(message, key.ret, keyPair[account],
                                               iv, now)
            encryptedMessage == encrypted.ret
            messageHash      == CreateMessageHash(encryptedMessage)
            ipfsHash         == UploadToIPFS(encryptedMessage, tier, now)
        IN  /\ keyPair[account] # NoKeyPair
            /\ Len(messages) < MaxSends
            /\ IF key.status # "ok"
               THEN /\ lastSend' = [sender |-> account, status |-> "failed",
                          error |-> "Recipient has not registered their public key yet"]
                    /\ UNCHANGED <<anchorVars, contentStore>>
               ELSE IF encrypted.status # "ok"
               THEN /\ lastSend' = [sender |-> account, status |-> "failed",
                          error |-> "Failed to send message"]
                    /\ UNCHANGED <<anchorVars, contentStore>>
               ELSE /\ contentStore' =
                          [a \in DOMAIN contentStore \cup {ipfsHash} |->
                              IF a = ipfsHash THEN encryptedMessage
                              ELSE contentStore[a]]
                    /\ AnchorMessage(account, recipient, messageHash, ipfsHash,
                                     NextBlockTime)
                    /\ lastSend' =
                          IF AnchorRequire(account, recipient, messageHash,
                                           ipfsHash) = "ok"
                          THEN [sender |-> account, status |-> "sent", error |-> ""]
                          ELSE [sender |-> account, status |-> "failed",
                                error |-> "Failed to send message"]
            /\ UNCHANGED <<browserVars, registryVars, keyPair, tamperCount, viewerVars, clientVars>>

\* handleSend with any text typed, iv drawn and store tier answering
HandleSend(account, recipient) ==
    \E message \in Texts, iv \in IVs, tier \in StoreTiers :
        HandleSendOf(account, recipient, message, iv, tier)

----------------------------------------------------------------------------
(* Frontend: MessageComposer.handleSend, one await at a time *)

Composer == "u1"             \* the account whose MessageComposer is modelled

\* catch and finally of handleSend: setError / onError, setSending(false),
\* setProgress(0)
ComposerFail_KeepsSending(c, errorMessage) ==
    [c EXCEPT !.pc = "idle", !.outcome = "failed", !.error = errorMessage]

ComposerFail(c, errorMessage) ==
    [c EXCEPT !.pc = "idle", !.outcome = "failed", !.error = errorMessage,
              !.sending = FALSE, !.progress = 0,
              !.progressLog = Append(@, 0)]

\* lines 124-126 with the anchorMessage call left out
AfterUpload_SkipsAnchor(c, ipfsHash) ==
    [c EXCEPT !.pc = "wait", !.ipfsHash = ipfsHash, !.progress = 90,
              !.progressLog = Append(@, 90)]

\* lines 124-126: setProgress(90), then anchorMessage is called
AfterUpload(c, ipfsHash) ==
    [c EXCEPT !.pc = "anchor", !.ipfsHash = ipfsHash, !.progress = 90,
              !.progressLog = Append(@, 90)]

\* lines 52-81: the guards, setSending(true), setProgress(0), setProgress(20),
\* then getPublicKey is called
SendStart ==
    \E recipient \in Users \ {Composer}, message \in Texts :
        /\ composer.pc = "idle"
        /\ Len(messages) < MaxSends
        /\ Len(putLog) < MaxPuts
        /\ composer' =
              IF keyPair[Composer] = NoKeyPair
              THEN [composer EXCEPT
                       !.error = "Please generate or load your encryption keys first"]
              ELSE [NoComposer EXCEPT
                       !.pc = "getPublicKey", !.sending = TRUE, !.progress = 20,
                       !.recipient = recipient, !.message = message,
                       !.progressLog = <<0, 20>>]
        /\ UNCHANGED <<browserVars, anchorVars, registryVars, keyPair, contentStore, tamperCount,
                       lastSend, ipfsConnected, putLog, storeCall, cryptoCall,
                       viewerVars>>

\* lines 81-121: getPublicKey has settled; encryptMessage, createMessageHash,
\* then uploadToIPFS is called
SendKeyLookupDone ==
    \E iv \in IVs :
        LET key       == GetKey(composer.recipient)
            encrypted == EncryptMessage(composer.message, key.ret,
                                        keyPair[Composer], iv, now)
        IN  /\ composer.pc = "getPublicKey"
            /\ composer' =
                  IF key.status # "ok"
                  THEN ComposerFail(composer,
                           "Recipient has not registered their public key yet")
                  ELSE IF encrypted.status # "ok"
                  THEN ComposerFail([composer EXCEPT !.progressLog = Append(@, 40)],
                                    "Failed to send message")
                  ELSE [composer EXCEPT
                           !.pc = "upload", !.progress = 70,
                           !.recipientPublicKey = key.ret,
                           !.encryptedMessage = encrypted.ret,
                           !.messageHash = CreateMessageHash(encrypted.ret),
                           !.progressLog = @ \o <<40, 50, 70>>]
            /\ UNCHANGED <<browserVars, anchorVars, registryVars, keyPair, contentStore,
                           tamperCount, lastSend, ipfsConnected, putLog, storeCall,
                           cryptoCall, viewerVars>>

\* lines 121-126: uploadToIPFS has settled
SendUploadDone ==
    \E env \in UploadEnvs :
        LET r == UploadToIPFSVia(composer.encryptedMessage, env, now)
        IN  /\ composer.pc = "upload"
            /\ contentStore' = IF r.stored
                               THEN StoreAt(contentStore, r.ret,
                                            composer.encryptedMessage)
                               ELSE contentStore
            /\ ipfsConnected' = r.connected
            /\ putLog' = IF r.status = "ok"
                         THEN Append(putLog, [content |-> composer.encryptedMessage,
                                              ipfsHash |-> r.ret, tier |-> r.tier])
                         ELSE putLog
            /\ storeCall' = [NoStoreCall EXCEPT
                                !.op = "put", !.ipfsHash = r.ret,
                                !.content = composer.encryptedMessage,
                                !.status = r.status, !.error = r.error]
            /\ composer' = IF r.status # "ok"
                           THEN ComposerFail(composer, "Failed to send message")
                           ELSE AfterUpload(composer, r.ret)
            /\ UNCHANGED <<browserVars, anchorVars, registryVars, keyPair, tamperCount, lastSend,
                           cryptoCall, viewerVars>>

\* blockchain.js anchorMessage up to tx.wait(): the wallet or the provider
\* refuses the transaction, or the contract executes it
SendAnchorSubmitted ==
    \E accepted \in BOOLEAN :
        /\ composer.pc = "anchor"
        /\ IF accepted
           THEN /\ AnchorMessage(Composer, composer.recipient, composer.messageHash,
                                 composer.ipfsHash, NextBlockTime)
                /\ composer' =
                      IF AnchorRequire(Composer, composer.recipient,
                                       composer.messageHash, composer.ipfsHash) = "ok"
                      THEN [composer EXCEPT !.pc = "wait"]
                      ELSE ComposerFail(composer, "Failed to send message")
           ELSE /\ composer' = ComposerFail(composer,
                      "Blockchain transaction failed. Please check your connection.")
                /\ UNCHANGED anchorVars
        /\ UNCHANGED <<browserVars, registryVars, keyPair, contentStore, tamperCount, lastSend,
                       ipfsConnected, putLog, storeCall, cryptoCall, viewerVars>>

\* lines 128-159 and finally: tx.wait() has resolved
SendConfirmed ==
    /\ composer.pc = "wait"
    /\ composer' = [composer EXCEPT
                       !.pc = "idle", !.outcome = "sent", !.success = TRUE,
                       !.sending = FALSE, !.progress = 0,
                       !.progressLog = @ \o <<100, 0>>]
    /\ UNCHANGED <<browserVars, anchorVars, registryVars, keyPair, contentStore, tamperCount,
                   lastSend, ipfsConnected, putLog, storeCall, cryptoCall, viewerVars>>

\* IdentityRegistry accepts any non-empty bytes: an account registers a key
\* that holds no coordinates
RegisterMalformedKey ==
    /\ Len(registryLog) < MaxRegEvents
    /\ RegisterKey("u3", <<4>>)
    /\ UNCHANGED <<browserVars, anchorVars, senderVars, viewerVars>>


----------------------------------------------------------------------------
(* Frontend: MessageList.js of the viewer's session *)

ContentNull    == [kind |-> "null", text |-> << >>]     \* content: null
ContentFailed  == [kind |-> "failed", text |-> << >>]   \* 'Failed to decrypt message'
ContentPromise == [kind |-> "promise", text |-> << >>]  \* a Promise object

\* stable sort by timestamp (Array.prototype.sort with a.timestamp - b.timestamp)
RECURSIVE InsertByTimestamp(_, _)
InsertByTimestamp(sorted, m) ==
    IF sorted = << >> THEN <<m>>
    ELSE IF sorted[Len(sorted)].timestamp <= m.timestamp THEN Append(sorted, m)
    ELSE Append(InsertByTimestamp(SubSeq(sorted, 1, Len(sorted) - 1), m),
                sorted[Len(sorted)])

RECURSIVE SortByTimestamp(_)
SortByTimestamp(ms) ==
    IF ms = << >> THEN << >>
    ELSE InsertByTimestamp(SortByTimestamp(SubSeq(ms, 1, Len(ms) - 1)), ms[Len(ms)])

\* blockchain.js getUserMessages / getConversationMessages: the ids from the
\* directory, each resolved with getMessage, sorted by timestamp
FetchMessages(messageIds) ==
    SortByTimestamp(
        [i \in 1..Len(messageIds) |->
            LET m == GetMessage(messageIds[i]).ret
            IN  [id |-> messageIds[i], from |-> m.from, to |-> m.to,
                 messageHash |-> m.messageHash, ipfsHash |-> m.ipfsHash,
                 timestamp |-> m.timestamp]])

\* loadMessages: the entries as first shown, before any decryption
ProcessedMessages(recipient) ==
    LET blockchainMessages ==
            IF recipient # NoRecipient
            THEN FetchMessages(GetConversationMessages(Viewer, recipient))
            ELSE FetchMessages(GetUserMessages(Viewer))
    IN  [i \in 1..Len(blockchainMessages) |->
            LET m == blockchainMessages[i]
            IN  [id |-> m.id, from |-> m.from, to |-> m.to,
                 messageHash |-> m.messageHash, ipfsHash |-> m.ipfsHash,
                 timestamp |-> m.timestamp, content |-> ContentNull,
                 isDecrypted |-> FALSE, isDecrypting |-> FALSE,
                 decryptionError |-> "null"]]

\* the guard of the local decryptMessage, evaluated with the keyPair and the
\* decryptingIds its closure captured
DecryptStarts(id, closureIds, closureKeyPair) ==
    closureKeyPair # NoKeyPair /\ id \notin closureIds

\* lines 75-82: setMessages(processedMessages), then decryptMessage(msg) for
\* each entry, with the decryptingIds and keyPair the closure captured
ShowMessages(processedMessages, closureIds, closureKeyPair) ==
    LET started == {processedMessages[i].id : i \in
                       {j \in 1..Len(processedMessages) :
                           /\ Len(processedMessages[j].ipfsHash) > 0
                           /\ DecryptStarts(processedMessages[j].id, closureIds,
                                            closureKeyPair)}}
    IN  /\ closureKeyPair # NoKeyPair
        /\ BagCardinality(tasks) + Cardinality(started) <= MaxTasks
        /\ msgList' = processedMessages
        /\ decryptingIds' = decryptingIds \cup started
        /\ tasks' = tasks (+) SetToBag(started)

\* loadMessages as run with the given selection, captured decryptingIds and
\* keyPair, the directory answering at once
LoadMessages(recipient, closureIds, closureKeyPair) ==
    ShowMessages(ProcessedMessages(recipient), closureIds, closureKeyPair)

\* the 'messageListRefresh' event, the 30 s interval and the Refresh button
\* call the loadMessages of the last render that changed its dependencies
RefreshMessages ==
    /\ LoadMessages(selectedRecipient, loadClosureIds, keyPair[Viewer])
    /\ UNCHANGED <<browserVars, anchorVars, registryVars, senderVars,
                   selectedRecipient, loadClosureIds>>

\* handleRecipientSelect: a changed selectedRecipient re-creates loadMessages
\* (capturing the current decryptingIds) and the effect runs it
HandleRecipientSelect ==
    \E recipient \in (Users \ {Viewer}) \cup {NoRecipient} :
        /\ recipient # selectedRecipient
        /\ selectedRecipient' = recipient
        /\ loadClosureIds' = decryptingIds
        /\ LoadMessages(recipient, decryptingIds, keyPair[Viewer])
        /\ UNCHANGED <<browserVars, anchorVars, registryVars, senderVars>>

\* setMessages(prev => prev.map(...)) of the try block
MarkDecrypted(list, id, decryptedContent) ==
    [i \in 1..Len(list) |->
        IF list[i].id = id
        THEN [list[i] EXCEPT !.content = decryptedContent,
                             !.isDecrypted = TRUE,
                             !.isDecrypting = FALSE]
        ELSE list[i]]

\* a catch block that marks every entry of the list
MarkFailed_EveryEntry(list, id, errorMessage) ==
    [i \in 1..Len(list) |->
        [list[i] EXCEPT !.content = ContentFailed,
                        !.isDecrypted = FALSE,
                        !.isDecrypting = FALSE,
                        !.decryptionError = errorMessage]]

\* setMessages(prev => prev.map(...)) of the catch block
MarkFailed(list, id, errorMessage) ==
    [i \in 1..Len(list) |->
        IF list[i].id = id
        THEN [list[i] EXCEPT !.content = ContentFailed,
                             !.isDecrypted = FALSE,
                             !.isDecrypting = FALSE,
                             !.decryptionError = errorMessage]
        ELSE list[i]]

\* the continuation of decryptMessage(message) after its first await:
\* retrieveFromIPFS, getPublicKey, line 106, setMessages, finally.
\* Line 106 names the component's own decryptMessage (it shadows the import
\* from utils/crypto), so the call returns a Promise and never throws; the
\* nested invocation fails on retrieveFromIPFS(undefined) and changes no entry.
CompleteDecryptOf(id) ==
    \E reachable \in BOOLEAN :
        LET message          == GetMessage(id).ret
            encryptedContent == RetrieveFromIPFS(message.ipfsHash, reachable)
            senderPublicKey  == GetKey(message.from)
            failure ==
                IF encryptedContent.status # "ok" THEN encryptedContent.error
                ELSE IF senderPublicKey.status # "ok" THEN senderPublicKey.reason
                ELSE ""
        IN  /\ id \in BagToSet(tasks)
            /\ msgList' =
                  IF failure = ""
                  THEN MarkDecrypted(msgList, id, ContentPromise)
                  ELSE MarkFailed(msgList, id, failure)
            /\ decryptingIds' = decryptingIds \ {id}
            /\ tasks' = tasks (-) SetToBag({id})
            /\ UNCHANGED <<browserVars, anchorVars, registryVars, senderVars,
                           selectedRecipient, loadClosureIds>>

CompleteDecrypt == \E id \in BagToSet(tasks) : CompleteDecryptOf(id)

\* a session generates its keys; in the viewer's session the new keyPair
\* re-creates loadMessages and the effect runs it
GenerateKeys ==
    \E account \in Sessions :
        /\ HandleGenerateKeys(account)
        /\ IF account = Viewer
           THEN /\ loadClosureIds' = decryptingIds
                /\ LoadMessages(selectedRecipient, decryptingIds, keyPair'[Viewer])
                /\ UNCHANGED selectedRecipient
           ELSE UNCHANGED viewerVars

SendMessage ==
    \E account \in Sessions :
        \E recipient \in Users \ {account} : HandleSend(account, recipient)

NextReceive ==
    \/ GenerateKeys
    \/ SendMessage
    \/ TamperStore
    \/ RefreshMessages
    \/ HandleRecipientSelect
    \/ CompleteDecrypt

SpecReceive == Init /\ [][NextReceive]_vars

\* the composer's session next to the sessions generating their keys
NextSend ==
    \/ GenerateKeys
    \/ RegisterMalformedKey
    \/ SendStart
    \/ SendKeyLookupDone
    \/ SendUploadDone
    \/ SendAnchorSubmitted
    \/ SendConfirmed

SpecSend == Init /\ [][NextSend]_vars

----------------------------------------------------------------------------
(* utils/crypto key files and the KeyManagement component *)

KeyPairOf(privateKey) == [kind |-> "keyPair", privateKey |-> privateKey,
                          publicKey |-> PublicKeyOf(privateKey)]
KeyValues == {NullKeys} \cup {KeyPairOf(k) : k \in PrivateKeys}

\* JSON.stringify(keyPair): 'null', or the object text '{' ... '}'
JsonStringify(pair) ==
    IF pair.kind = "null" THEN <<0>>
    ELSE <<7, pair.privateKey>> \o pair.publicKey \o <<8>>

\* a parser that accepts any text of the right length as a key pair
JsonParse_AnyObject(text) ==
    IF text = <<0>> THEN [status |-> "ok", ret |-> NullKeys]
    ELSE IF Len(text) >= 3
    THEN [status |-> "ok",
          ret |-> [kind |-> "keyPair", privateKey |-> text[2],
                   publicKey |-> SubSeq(text, 3, Len(text) - 1)]]
    ELSE [status |-> "ok", ret |-> KeyPairOf(1)]

\* JSON.parse(text): the value, or a SyntaxError; the text <<5>> is a number
JsonParse(text) ==
    IF text = <<0>> THEN [status |-> "ok", ret |-> NullKeys]
    ELSE IF text = <<5>>
    THEN [status |-> "ok",
          ret |-> [kind |-> "scalar", privateKey |-> 0, publicKey |-> EmptyBytes]]
    ELSE IF Len(text) >= 3 /\ text[1] = 7 /\ text[Len(text)] = 8
    THEN [status |-> "ok",
          ret |-> [kind |-> "keyPair", privateKey |-> text[2],
                   publicKey |-> SubSeq(text, 3, Len(text) - 1)]]
    ELSE [status |-> "throw", ret |-> NullKeys]

\* CryptoJS.AES.encrypt(keyData, password).toString(): a ciphertext that only
\* the same password turns back into keyData
AesEncrypt(keyData, password) ==
    [present |-> TRUE, password |-> password, text |-> keyData]

\* what the bytes produced under another password amount to: they are not
\* UTF-8, or they are a text JSON.parse rejects, or a text it reads as a number
GarbageOutcomes == {"malformedUtf8", "syntaxError", "number"}

\* CryptoJS.AES.decrypt(encrypted, password).toString(CryptoJS.enc.Utf8)
AesDecrypt(encrypted, password, garbage) ==
    IF encrypted.password = password
    THEN [status |-> "ok", text |-> encrypted.text]
    ELSE IF garbage = "malformedUtf8" THEN [status |-> "throw", text |-> << >>]
    ELSE IF garbage = "syntaxError" THEN [status |-> "ok", text |-> << >>]
    ELSE [status |-> "ok", text |-> <<5>>]

\* saveKeyPair(keyPair, password, userAddress): the new storage and true, or
\* the storage as it was and false when localStorage.setItem throws
SaveKeyPair(storage, pair, password, userAddress, setItem) ==
    LET storageKey == StorageKeyOf(userAddress)
        encrypted  == AesEncrypt(JsonStringify(pair), password)
    IN  IF setItem
        THEN [ret |-> TRUE, storage |-> [storage EXCEPT ![storageKey] = encrypted]]
        ELSE [ret |-> FALSE, storage |-> storage]

\* loadKeyPair(password, userAddress): the parsed key file, or null
LoadKeyPair(storage, password, userAddress, garbage) ==
    LET storageKey == StorageKeyOf(userAddress)
        encrypted  == storage[storageKey]
        decrypted  == AesDecrypt(encrypted, password, garbage)
        parsed     == JsonParse(decrypted.text)
    IN  IF ~encrypted.present THEN NullKeys
        ELSE IF decrypted.status # "ok" \/ parsed.status # "ok" THEN NullKeys
        ELSE parsed.ret

\* hasStoredKeyPair(userAddress)
HasStoredKeyPair(storage, userAddress) == storage[StorageKeyOf(userAddress)].present

\* clearStoredKeyPair(userAddress)
ClearStoredKeyPair(storage, userAddress) ==
    [storage EXCEPT ![StorageKeyOf(userAddress)] = NoItem]

\* validateKeyPair(keyPair)
ValidateKeyPair(pair) ==
    /\ pair.kind = "keyPair"
    /\ pair.privateKey \in PrivateKeys
    /\ pair.publicKey = PublicKeyOf(pair.privateKey)

\* the record of what each scope was last saved with, kept next to the storage
NoteSaved(saved, userAddress, pair, password) ==
    [saved EXCEPT ![ToLowerCase(userAddress)] =
        [saved |-> TRUE, keyPair |-> pair, password |-> password]]
NoteCleared(saved, userAddress) ==
    [saved EXCEPT ![ToLowerCase(userAddress)] = NoSaved]

SaveKeyPairCall ==
    \E kp \in KeyValues \ {NullKeys}, password \in Passwords, userAddress \in Scopes,
       setItem \in BOOLEAN :
        LET r == SaveKeyPair(keyStorage, kp, password, userAddress, setItem)
        IN  /\ keyStorage' = r.storage
            /\ savedKeys' = IF r.ret THEN NoteSaved(savedKeys, userAddress, kp, password)
                            ELSE savedKeys
            /\ keyCall' = [op |-> "saveKeyPair", userAddress |-> userAddress,
                           password |-> password, keyPair |-> kp,
                           ret |-> NullKeys, ok |-> r.ret]
            /\ UNCHANGED <<nonKeyVars, keyMgmt>>

LoadKeyPairCall ==
    \E password \in Passwords, userAddress \in Scopes, garbage \in GarbageOutcomes :
        /\ keyCall' = [op |-> "loadKeyPair", userAddress |-> userAddress,
                       password |-> password, keyPair |-> NullKeys,
                       ret |-> LoadKeyPair(keyStorage, password, userAddress, garbage),
                       ok |-> FALSE]
        /\ UNCHANGED <<nonKeyVars,
                       keyStorage, savedKeys, keyMgmt>>

HasStoredKeyPairCall ==
    \E userAddress \in Scopes :
        /\ keyCall' = [op |-> "hasStoredKeyPair", userAddress |-> userAddress,
                       password |-> 0, keyPair |-> NullKeys, ret |-> NullKeys,
                       ok |-> HasStoredKeyPair(keyStorage, userAddress)]
        /\ UNCHANGED <<nonKeyVars,
                       keyStorage, savedKeys, keyMgmt>>

ClearStoredKeyPairCall ==
    \E userAddress \in Scopes :
        /\ keyStorage' = ClearStoredKeyPair(keyStorage, userAddress)
        /\ savedKeys' = NoteCleared(savedKeys, userAddress)
        /\ keyCall' = [op |-> "clearStoredKeyPair", userAddress |-> userAddress,
                       password |-> 0, keyPair |-> NullKeys, ret |-> NullKeys,
                       ok |-> FALSE]
        /\ UNCHANGED <<nonKeyVars, keyMgmt>>

\* App.handleAccountChange, then the KeyManagement effect on [account]
HandleAccountChange ==
    \E newAccount \in AccountStrings :
        /\ keyMgmt' = [account |-> newAccount, keyPair |-> NullKeys,
                       hasStored |-> HasStoredKeyPair(keyStorage, newAccount)]
        /\ keyCall' = [op |-> "handleAccountChange", userAddress |-> newAccount,
                       password |-> 0, keyPair |-> NullKeys, ret |-> NullKeys,
                       ok |-> HasStoredKeyPair(keyStorage, newAccount)]
        /\ UNCHANGED <<nonKeyVars,
                       keyStorage, savedKeys>>

\* handleImportKeys: the pasted backup is parsed and validated; a refusal is
\* reported through onError and changes nothing here
HandleImportKeys ==
    \E imported \in KeyValues :
        /\ keyMgmt.account # NoAccount
        /\ keyMgmt' = IF ValidateKeyPair(imported)
                      THEN [keyMgmt EXCEPT !.keyPair = imported]
                      ELSE keyMgmt
        /\ keyCall' = [op |-> "handleImportKeys", userAddress |-> keyMgmt.account,
                       password |-> 0, keyPair |-> imported, ret |-> NullKeys,
                       ok |-> ValidateKeyPair(imported)]
        /\ UNCHANGED <<nonKeyVars,
                       keyStorage, savedKeys>>

\* handleSaveKeys; a blank password and a failed save are reported through
\* onError
HandleSaveKeys ==
    \E password \in Passwords \cup {BlankPassword}, setItem \in BOOLEAN :
        LET r == SaveKeyPair(keyStorage, keyMgmt.keyPair, password,
                             keyMgmt.account, setItem)
        IN  /\ keyMgmt.account # NoAccount
            /\ keyMgmt.keyPair # NullKeys
            /\ IF password = BlankPassword
               THEN /\ keyMgmt' = keyMgmt
                    /\ keyCall' = [op |-> "handleSaveKeys",
                                   userAddress |-> keyMgmt.account,
                                   password |-> password, keyPair |-> keyMgmt.keyPair,
                                   ret |-> NullKeys, ok |-> FALSE]
                    /\ UNCHANGED <<keyStorage, savedKeys>>
               ELSE /\ keyStorage' = r.storage
                    /\ savedKeys' = IF r.ret
                                    THEN NoteSaved(savedKeys, keyMgmt.account,
                                                   keyMgmt.keyPair, password)
                                    ELSE savedKeys
                    /\ keyMgmt' = IF r.ret
                                  THEN [keyMgmt EXCEPT !.hasStored = TRUE]
                                  ELSE keyMgmt
                    /\ keyCall' = [op |-> "handleSaveKeys",
                                   userAddress |-> keyMgmt.account,
                                   password |-> password, keyPair |-> keyMgmt.keyPair,
                                   ret |-> NullKeys, ok |-> r.ret]
            /\ UNCHANGED <<nonKeyVars>>

\* handleLoadKeys; a blank password and a refused key file are reported
\* through onError
HandleLoadKeys ==
    \E password \in Passwords \cup {BlankPassword}, garbage \in GarbageOutcomes :
        LET loadedKeys == LoadKeyPair(keyStorage, password, keyMgmt.account, garbage)
            accepted   == /\ password # BlankPassword
                          /\ loadedKeys.kind # "null"
                          /\ ValidateKeyPair(loadedKeys)
        IN  /\ keyMgmt.account # NoAccount
            /\ keyMgmt.keyPair = NullKeys
            /\ keyMgmt' =
                  IF accepted
                  THEN [keyMgmt EXCEPT !.keyPair = loadedKeys]
                  ELSE keyMgmt
            /\ keyCall' = [op |-> "handleLoadKeys", userAddress |-> keyMgmt.account,
                           password |-> password, keyPair |-> NullKeys,
                           ret |-> IF accepted THEN loadedKeys ELSE NullKeys,
                           ok |-> accepted]
            /\ UNCHANGED <<nonKeyVars,
                           keyStorage, savedKeys>>

\* handleClearKeys: the user confirms, or cancels and nothing happens
HandleClearKeys ==
    \E confirm \in BOOLEAN :
        /\ keyMgmt.account # NoAccount
        /\ keyMgmt.keyPair # NullKeys
        /\ IF confirm
           THEN /\ keyStorage' = ClearStoredKeyPair(keyStorage, NoAccount)
                /\ savedKeys' = NoteCleared(savedKeys, NoAccount)
                /\ keyMgmt' = [keyMgmt EXCEPT !.keyPair = NullKeys,
                                              !.hasStored = FALSE]
           ELSE UNCHANGED <<keyStorage, savedKeys, keyMgmt>>
        /\ keyCall' = [op |-> "handleClearKeys", userAddress |-> keyMgmt.account,
                       password |-> 0, keyPair |-> NullKeys, ret |-> NullKeys,
                       ok |-> confirm]
        /\ UNCHANGED <<nonKeyVars>>

\* the key file functions called in any order
NextKeys ==
    \/ SaveKeyPairCall
    \/ LoadKeyPairCall
    \/ HasStoredKeyPairCall
    \/ ClearStoredKeyPairCall

SpecKeys == Init /\ [][NextKeys]_vars

\* a KeyManagement session
NextKeyMgmt ==
    \/ HandleAccountChange
    \/ HandleImportKeys
    \/ HandleSaveKeys
    \/ HandleLoadKeys
    \/ HandleClearKeys

SpecKeyMgmt == Init /\ [][NextKeyMgmt]_vars

----------------------------------------------------------------------------
(* utils/ipfs: initializeIPFS, one await at a time, for concurrent callers *)

MaxInits == 2        \* initializeIPFS invocations explored per caller

\* create(config): a fresh client object for the caller's n-th invocation
ClientOf(caller, n, config) == 100 * n + 10 * caller + config

\* the module state seen by uploadToIPFS / retrieveFromIPFS: ipfsClient && isConnected
ClientUsable(module) == module.ipfsClient # NullClient /\ module.isConnected

\* lines 29-39: return the connected client, or create the client of the first
\* configuration and start its version() test
InitializeIPFSStart(caller) ==
    LET call == initCall[caller]
        n    == call.calls + 1
    IN  /\ call.pc = "idle"
        /\ call.calls < MaxInits
        /\ IF ClientUsable(ipfsModule)
           THEN /\ initCall' = [initCall EXCEPT ![caller] =
                       [call EXCEPT !.calls = n, !.outcome = "connected",
                                    !.ret = ipfsModule.ipfsClient]]
                /\ UNCHANGED ipfsModule
           ELSE /\ ipfsModule' = [ipfsModule EXCEPT !.ipfsClient = ClientOf(caller, n, 1)]
                /\ initCall' = [initCall EXCEPT ![caller] =
                       [pc |-> "testing", config |-> 1,
                        handle |-> ClientOf(caller, n, 1), calls |-> n,
                        outcome |-> "none", ret |-> NullClient]]
        /\ ipfsConnected' = ClientUsable(ipfsModule')
        /\ UNCHANGED <<versionOk, nonIpfsVars>>

\* App.checkIPFS: the effect of a mount calls initializeIPFS unconditionally
CheckIPFS ==
    \E caller \in InitCallers : InitializeIPFSStart(caller)

\* uploadToIPFS lines 67-69 (getIPFSStatus alike): initializeIPFS is called
\* when no client object is set
UploadInitialize ==
    \E caller \in InitCallers :
        /\ ipfsModule.ipfsClient = NullClient
        /\ InitializeIPFSStart(caller)

\* lines 46-49: the version() test of the caller's client has answered
VersionResponds ==
    \E caller \in InitCallers :
        LET call == initCall[caller]
        IN  /\ call.pc = "testing"
            /\ ipfsModule' = [ipfsModule EXCEPT !.currentConfig = call.config,
                                                !.isConnected = TRUE]
            /\ initCall' = [initCall EXCEPT ![caller] =
                   [call EXCEPT !.pc = "idle", !.outcome = "connected",
                                !.ret = ipfsModule.ipfsClient]]
            /\ versionOk' = versionOk \cup {call.handle}
            /\ ipfsConnected' = ClientUsable(ipfsModule')
            /\ UNCHANGED nonIpfsVars

\* lines 50-61: the catch of a failed test, then the next configuration's
\* create, or the end of the loop
ConnectCatch(caller) ==
    LET call == initCall[caller]
    IN  /\ call.pc = "testing"
        /\ IF call.config + 1 \in IpfsConfigs
           THEN /\ ipfsModule' =
                      [ipfsModule EXCEPT !.isConnected = FALSE,
                           !.ipfsClient = ClientOf(caller, call.calls, call.config + 1)]
                /\ initCall' = [initCall EXCEPT ![caller] =
                       [call EXCEPT !.config = call.config + 1,
                            !.handle = ClientOf(caller, call.calls, call.config + 1)]]
           ELSE /\ ipfsModule' = [ipfsClient |-> NullClient, isConnected |-> FALSE,
                                  currentConfig |-> GatewayFallbackConfig]
                /\ initCall' = [initCall EXCEPT ![caller] =
                       [call EXCEPT !.pc = "idle", !.outcome = "fallback",
                                    !.ret = NullClient]]
        /\ ipfsConnected' = ClientUsable(ipfsModule')
        /\ UNCHANGED <<versionOk, nonIpfsVars>>

\* ipfsClient.version() rejects
VersionRejects ==
    \E caller \in InitCallers : ConnectCatch(caller)

\* the setTimeout of the Promise.race rejects with 'Connection timeout'
ConnectionTimeout ==
    \E caller \in InitCallers : ConnectCatch(caller)

NextIpfs ==
    \/ CheckIPFS
    \/ UploadInitialize
    \/ VersionResponds
    \/ VersionRejects
    \/ ConnectionTimeout

SpecIpfs == Init /\ [][NextIpfs]_vars

----------------------------------------------------------------------------
(* MessageList.decryptMessage(message), one await at a time, next to a send *)

\* a completed invocation: the entry is marked decrypted, or failed with the
\* message of the Error caught
FetchSettled(op, errorMessage) ==
    [op EXCEPT !.pc = "idle", !.gateway = 0,
               !.outcome = IF errorMessage = "" THEN "ready" ELSE "failed",
               !.error = errorMessage]

\* the gateway loop after gateway g has not served the content
AfterGateway(op, g) ==
    IF g < GatewayCount
    THEN [op EXCEPT !.pc = "gateway", !.gateway = g + 1]
    ELSE FetchSettled(op,
             "Failed to retrieve message: Failed to retrieve message from all sources")

\* lines 94-101 and retrieveFromIPFS up to its first await: an address with
\* the fallback prefix is read from localStorage at once, any other is asked
\* of the local node when connected, else of the first gateway
FetchStart ==
    \E id \in 0..(Len(messages) - 1) :
        LET message == GetMessage(id).ret
            started == [NoFetchOp EXCEPT !.id = id]
        IN  /\ fetchOp.pc = "idle"
            /\ keyPair[Viewer] # NoKeyPair
            /\ fetchOp' =
                  IF StartsWithFallback(message.ipfsHash)
                  THEN IF message.ipfsHash \in DOMAIN contentStore
                       THEN [started EXCEPT !.pc = "getPublicKey"]
                       ELSE FetchSettled(started,
                                "Failed to retrieve message: Message not found in fallback storage")
                  ELSE IF ipfsConnected
                  THEN [started EXCEPT !.pc = "node"]
                  ELSE [started EXCEPT !.pc = "gateway", !.gateway = 1]
            /\ UNCHANGED nonFetchVars

\* ipfsClient.cat(ipfsHash) yields the content, or throws
FetchNodeResponds ==
    \E outcome \in {"ok", "error"} :
        /\ fetchOp.pc = "node"
        /\ fetchOp' =
              IF SourceOutcome(GetMessage(fetchOp.id).ret.ipfsHash, outcome) = "ok"
              THEN [fetchOp EXCEPT !.pc = "getPublicKey"]
              ELSE [fetchOp EXCEPT !.pc = "gateway", !.gateway = 1]
        /\ UNCHANGED nonFetchVars

\* the request timeout the client was created with (config.timeout) ends a
\* read the node does not answer
FetchNodeTimeout ==
    /\ fetchOp.pc = "node"
    /\ fetchOp' = [fetchOp EXCEPT !.pc = "gateway", !.gateway = 1]
    /\ UNCHANGED nonFetchVars

\* fetch(gateway + ipfsHash, { timeout: 10000 }) settles; fetch has no
\* timeout option, so nothing else ends the await
FetchGatewayResponds ==
    \E outcome \in GatewayOutcomes :
        /\ fetchOp.pc = "gateway"
        /\ fetchOp' =
              IF SourceOutcome(GetMessage(fetchOp.id).ret.ipfsHash, outcome) = "ok"
              THEN [fetchOp EXCEPT !.pc = "getPublicKey", !.gateway = 0]
              ELSE AfterGateway(fetchOp, fetchOp.gateway)
        /\ UNCHANGED nonFetchVars

\* lines 103-136: getPublicKey settles, line 106, setMessages, finally
FetchKeyResponds ==
    LET senderPublicKey == GetKey(GetMessage(fetchOp.id).ret.from)
    IN  /\ fetchOp.pc = "getPublicKey"
        /\ fetchOp' = IF senderPublicKey.status = "ok"
                      THEN FetchSettled(fetchOp, "")
                      ELSE FetchSettled(fetchOp, senderPublicKey.reason)
        /\ UNCHANGED nonFetchVars

NextLive ==
    \/ GenerateKeys
    \/ SendStart
    \/ SendKeyLookupDone
    \/ SendUploadDone
    \/ SendAnchorSubmitted
    \/ SendConfirmed
    \/ FetchStart
    \/ FetchNodeResponds
    \/ FetchNodeTimeout
    \/ FetchGatewayResponds
    \/ FetchKeyResponds

\* what ends every await the code bounds: the connection test and the client's
\* requests carry a timeout (an upload therefore settles), and a call to the
\* directory's provider is taken to settle; tx.wait() and a gateway fetch are
\* bounded by nothing in the code
FairLive ==
    /\ WF_vars(SendKeyLookupDone)
    /\ WF_vars(SendUploadDone)
    /\ WF_vars(SendAnchorSubmitted)
    /\ WF_vars(FetchNodeTimeout)
    /\ WF_vars(FetchKeyResponds)

SpecLive == Init /\ [][NextLive]_vars /\ FairLive

----------------------------------------------------------------------------
(* MessageList of the viewer: loads, the subscription, retries *)

MaxLoads == 1            \* loadMessages invocations awaiting the directory

\* ids the directory can hold
MessageIds == 0..(MaxSends - 1)

\* the state once both sessions have generated and registered their keys and
\* the viewer's MessageList has mounted: the subscription is set up and the
\* load effect has called loadMessages
InitViewer ==
    /\ messages = << >>
    /\ userMessages = [a \in Addresses |-> << >>]
    /\ anchorLog = << >>
    /\ now = 1
    /\ lastCall = NoCall
    /\ userPublicKeys = [a \in Addresses |->
                            IF a \in Sessions
                            THEN PublicKeyOf(CHOOSE k \in GeneratedKeys(a) : TRUE)
                            ELSE EmptyBytes]
    /\ isRegistered = [a \in Addresses |-> a \in Sessions]
    /\ registryLog = <<[event |-> "KeyRegistered", user |-> "u1",
                        key |-> PublicKeyOf(CHOOSE k \in GeneratedKeys("u1") : TRUE)],
                       [event |-> "KeyRegistered", user |-> Viewer,
                        key |-> PublicKeyOf(CHOOSE k \in GeneratedKeys(Viewer) : TRUE)]>>
    /\ regCall = [op |-> "registerKey", sender |-> Viewer,
                  key |-> PublicKeyOf(CHOOSE k \in GeneratedKeys(Viewer) : TRUE),
                  status |-> "ok", reason |-> ""]
    /\ keyPair = [u \in Users |-> IF u \in Sessions
                                  THEN CHOOSE k \in GeneratedKeys(u) : TRUE
                                  ELSE NoKeyPair]
    /\ contentStore = << >>
    /\ tamperCount = 0
    /\ lastSend = NoSend
    /\ selectedRecipient = NoRecipient
    /\ msgList = << >>
    /\ decryptingIds = {}
    /\ loadClosureIds = {}
    /\ tasks = EmptyBag
    /\ ipfsConnected = FALSE
    /\ putLog = << >>
    /\ storeCall = NoStoreCall
    /\ cryptoCall = NoCryptoCall
    /\ composer = NoComposer
    /\ keyStorage = [slot \in KeySlots |-> NoItem]
    /\ savedKeys = [scope \in {ToLowerCase(a) : a \in Scopes} |-> NoSaved]
    /\ keyCall = NoKeyCall
    /\ keyMgmt = NoKeyMgmt
    /\ ipfsModule = NoIpfsModule
    /\ initCall = [c \in InitCallers |-> NoInitCall]
    /\ versionOk = {}
    /\ fetchOp = NoFetchOp
    /\ deriveCall = NoDeriveCall
    /\ loadCalls = <<[pc |-> "ids", recipient |-> NoRecipient, closureIds |-> {},
                      blockchainMessages |-> << >>]>>
    /\ listener = [active |-> TRUE, since |-> 0, delivered |-> {}]
    /\ timers = {}

\* the 'messageListRefresh' event, the 30 s interval: loadMessages up to its
\* first await
LoadStart ==
    /\ keyPair[Viewer] # NoKeyPair
    /\ Len(loadCalls) < MaxLoads
    /\ loadCalls' = Append(loadCalls,
                        [pc |-> "ids", recipient |-> selectedRecipient,
                         closureIds |-> loadClosureIds,
                         blockchainMessages |-> << >>])
    /\ UNCHANGED <<anchorVars, registryVars, senderVars, viewerVars, keyVars,
                   ipfsVars, fetchOp, deriveCall, listener, timers>>

\* blockchain.js 191 / 216: the directory answers with the ids it holds;
\* the records of these ids, which never change, are what the load will show
LoadIdsAnswered ==
    \E k \in 1..Len(loadCalls) :
        /\ loadCalls[k].pc = "ids"
        /\ loadCalls' = [loadCalls EXCEPT
                            ![k].pc = "records",
                            ![k].blockchainMessages =
                                ProcessedMessages(loadCalls[k].recipient)]
        /\ UNCHANGED <<anchorVars, registryVars, senderVars, viewerVars, keyVars,
                       ipfsVars, fetchOp, deriveCall, listener, timers>>

\* lines 66-82: the records have arrived; setMessages, then decryptMessage for
\* each entry
LoadDone ==
    \E k \in 1..Len(loadCalls) :
        /\ loadCalls[k].pc = "records"
        /\ ShowMessages(loadCalls[k].blockchainMessages,
                        loadCalls[k].closureIds, keyPair[Viewer])
        /\ loadCalls' = [i \in 1..(Len(loadCalls) - 1) |->
                            IF i < k THEN loadCalls[i] ELSE loadCalls[i + 1]]
        /\ UNCHANGED <<anchorVars, registryVars, senderVars, selectedRecipient,
                       loadClosureIds, keyVars, ipfsVars, fetchOp, deriveCall,
                       listener, timers>>

\* the MessageAnchored events the provider has still to hand to the callback
PendingEvents ==
    {k \in 1..Len(anchorLog) :
        /\ listener.active
        /\ k > listener.since
        /\ anchorLog[k].to = Viewer
        /\ anchorLog[k].messageId \notin listener.delivered}

\* a list that takes the new entry without looking for its id
AppendNewMessage_NoExistsCheck(list, processedMessage) ==
    Append(list, processedMessage)

\* lines 172-178: setMessages(prev => exists ? prev : [...prev, processedMessage])
AppendNewMessage(list, processedMessage) ==
    IF \E i \in 1..Len(list) : list[i].id = processedMessage.id
    THEN list
    ELSE Append(list, processedMessage)

\* lines 159-199: the subscription callback for one event
DeliverEvent ==
    \E k \in PendingEvents :
        LET newMessage == anchorLog[k]
            processedMessage ==
                [id |-> newMessage.messageId, from |-> newMessage.from,
                 to |-> newMessage.to, messageHash |-> newMessage.messageHash,
                 ipfsHash |-> newMessage.ipfsHash,
                 timestamp |-> GetMessage(newMessage.messageId).ret.timestamp,
                 content |-> ContentNull, isDecrypted |-> FALSE,
                 isDecrypting |-> FALSE, decryptionError |-> "null"]
        IN  /\ msgList' = AppendNewMessage(msgList, processedMessage)
            /\ timers' = IF Len(newMessage.ipfsHash) > 0
                         THEN timers \cup {newMessage.messageId}
                         ELSE timers
            /\ listener' = [listener EXCEPT
                               !.delivered = @ \cup {newMessage.messageId}]
            /\ UNCHANGED <<anchorVars, registryVars, senderVars, selectedRecipient,
                           decryptingIds, loadClosureIds, tasks, keyVars, ipfsVars,
                           fetchOp, deriveCall, loadCalls>>

\* lines 94-101 of one decryptMessage(message): the guard with the captured
\* decryptingIds, setDecryptingIds, the call of retrieveFromIPFS
StartDecrypt(id, closureIds, closureKeyPair) ==
    IF DecryptStarts(id, closureIds, closureKeyPair)
    THEN /\ BagCardinality(tasks) < MaxTasks
         /\ decryptingIds' = decryptingIds \cup {id}
         /\ tasks' = tasks (+) SetToBag({id})
    ELSE UNCHANGED <<decryptingIds, tasks>>

\* line 181: the timer of the callback fires; the callback is the one of the
\* render that set the subscription up, when decryptingIds was empty
TimerFires ==
    \E id \in timers :
        /\ StartDecrypt(id, {}, keyPair[Viewer])
        /\ timers' = timers \ {id}
        /\ UNCHANGED <<anchorVars, registryVars, senderVars, selectedRecipient,
                       msgList, loadClosureIds, keyVars, ipfsVars, fetchOp,
                       deriveCall, loadCalls, listener>>

\* line 339-356: the Retry button is rendered for an entry
RetryShown(m) ==
    /\ ~m.isDecrypted
    /\ ~(m.isDecrypting \/ m.id \in decryptingIds)
    /\ m.decryptionError # "null"

\* setMessages(prev => prev.map(...)) of retryDecryption
MarkRetrying(list, id) ==
    [i \in 1..Len(list) |->
        IF list[i].id = id
        THEN [list[i] EXCEPT !.decryptionError = "null", !.isDecrypting = TRUE]
        ELSE list[i]]

\* lines 140-147: a click on Retry; the handler is the one of the render shown
RetryDecryption ==
    \E i \in 1..Len(msgList) :
        /\ keyPair[Viewer] # NoKeyPair
        /\ RetryShown(msgList[i])
        /\ msgList' = MarkRetrying(msgList, msgList[i].id)
        /\ StartDecrypt(msgList[i].id, decryptingIds, keyPair[Viewer])
        /\ UNCHANGED <<anchorVars, registryVars, senderVars, selectedRecipient,
                       loadClosureIds, keyVars, ipfsVars, fetchOp, deriveCall,
                       listVars>>

\* the composer's session sends the viewer a text, stored on the node
SendToViewer ==
    \E message \in {<<1>>}, iv \in IVs :
        HandleSendOf(Composer, Viewer, message, iv, "node")

\* loads, the subscription and completions
NextViewer ==
    \/ SendToViewer
    \/ LoadStart
    \/ LoadIdsAnswered
    \/ LoadDone
    \/ DeliverEvent
    \/ TimerFires
    \/ CompleteDecrypt

\* timers fire and the directory's provider is taken to answer; the retrieval
\* a decryptMessage awaits is bounded by nothing when it reaches a gateway
FairViewer ==
    /\ WF_vars(TimerFires)
    /\ WF_vars(LoadIdsAnswered)
    /\ WF_vars(LoadDone)

SpecViewer == InitViewer /\ [][NextViewer]_vars /\ FairViewer

\* loads, retries and completions, without the subscription
NextRetry ==
    \/ HandleSend(Composer, Viewer)
    \/ LoadStart
    \/ LoadIdsAnswered
    \/ LoadDone
    \/ RetryDecryption
    \/ CompleteDecrypt

\* the directory's provider is taken to answer; the retrieval a
\* decryptMessage awaits is bounded by nothing when it reaches a gateway
FairRetry ==
    /\ WF_vars(LoadIdsAnswered)
    /\ WF_vars(LoadDone)

SpecRetry == InitViewer /\ [][NextRetry]_vars /\ FairRetry

\* the same with every retrieval answered or refused
SpecRetryAnswered ==
    SpecRetry /\ \A id \in MessageIds : WF_vars(CompleteDecryptOf(id))

----------------------------------------------------------------------------
(* Claims about the receive path, checked under SpecReceive *)

\* C1: on receive, the bytes retrieved at a record's contentAddress are
\* accepted (the entry is shown as decrypted) only if their hash equals the
\* record's integrityHash; bytes changed after upload are surfaced as a
\* failure and never silently accepted.
C1_AcceptedOnlyIfHashMatches ==
    [][ \A i \in 1..Len(msgList') :
          LET e == msgList'[i]
          IN  (/\ e.isDecrypted
               /\ \E j \in 1..Len(msgList) :
                     msgList[j].id = e.id /\ ~msgList[j].isDecrypted)
              => /\ e.ipfsHash \in DOMAIN contentStore
                 /\ CreateMessageHash(contentStore[e.ipfsHash]) = e.messageHash
      ]_vars

----------------------------------------------------------------------------
(* Claims about utils/crypto, checked under SpecCrypto *)

\* the decrypting party derived the key the encrypting party used
SameKey ==
    LET k1 == DeriveSharedSecret(cryptoCall.privateKey, cryptoCall.publicKey)
        k2 == DeriveSharedSecret(cryptoCall.otherPrivateKey, cryptoCall.otherPublicKey)
    IN  k1.status = "ok" /\ k2.status = "ok" /\ k1.ret = k2.ret

\* C19 (as stated): for every payload P, the empty payload included, and
\* every symmetric key K, decrypting with K the envelope produced by
\* encrypting P with K returns exactly P.
C19_RoundTripEveryPayload ==
    (cryptoCall.op = "decrypt" /\ SameKey)
        => (cryptoCall.status = "ok" /\ cryptoCall.ret = cryptoCall.message)

\* C19 (amended): for every non-empty payload P and every symmetric key K,
\* decrypting with K the envelope produced by encrypting P with K returns
\* exactly P; the envelope of the empty payload is rejected by decryptMessage.
C19_RoundTripNonEmpty ==
    (cryptoCall.op = "decrypt" /\ SameKey)
        => IF cryptoCall.message # << >>
           THEN cryptoCall.status = "ok" /\ cryptoCall.ret = cryptoCall.message
           ELSE cryptoCall.status = "error"

C19_Witness ==
    /\ cryptoCall.op = "decrypt"
    /\ SameKey
    /\ cryptoCall.publicKey # cryptoCall.otherPublicKey
    /\ Len(cryptoCall.message) = 2
    /\ cryptoCall.message[1] # cryptoCall.message[2]
    /\ cryptoCall.ret = cryptoCall.message

\* the x-coordinate of an uncompressed public key (04 || x || y) or of a bare
\* point (x || y)
XCoordinate(publicKey) == IF publicKey[1] = 4 THEN publicKey[2] ELSE publicKey[1]
HasCoordinates(publicKey) ==
    Len(publicKey) >= (IF publicKey[1] = 4 THEN 2 ELSE 1)

----------------------------------------------------------------------------
(* Claims about utils/ipfs, checked under SpecStore and SpecRetrieve *)

\* the address carries the 'fallback_' prefix
HasFallbackPrefix(ipfsHash) == Len(ipfsHash) > 0 /\ ipfsHash[1] = FallbackPrefix[1]

\* C13: if the primary store node is unreachable, uploadToIPFS still succeeds
\* by storing the bytes in the local cache under a fallback-prefixed address,
\* and every address it returns on this path can afterwards be read back by
\* retrieveFromIPFS from the local cache without contacting the store node or
\* any gateway.
C13_FallbackReadable ==
    \A i \in 1..Len(putLog) :
        putLog[i].tier = "fallback" =>
            /\ HasFallbackPrefix(putLog[i].ipfsHash)
            /\ \A env \in RetrieveEnvs :
                  LET r == RetrieveFromIPFSVia(putLog[i].ipfsHash, env)
                  IN  /\ r.status = "ok"
                      /\ r.ret = putLog[i].content
                      /\ r.contacted = << >>

\* C14: for every content put into the content store, a later get on the
\* returned address returns exactly the bytes that were put, whichever tier
\* served the put, also after other puts of different content in between.
C14_PutGetRoundTrip ==
    \A i \in 1..Len(putLog) :
        LET r == RetrieveFromIPFS(putLog[i].ipfsHash, TRUE)
        IN  r.status = "ok" /\ r.ret = putLog[i].content

\* C15: retrieveFromIPFS on an address carrying the fallback prefix reads only
\* the local cache: it returns the cached bytes if present and fails with a
\* not-found error if absent, and in neither case contacts the store node or
\* any gateway.
C15_FallbackGetLocalOnly ==
    (storeCall.op = "get" /\ HasFallbackPrefix(storeCall.ipfsHash)) =>
        /\ storeCall.contacted = << >>
        /\ IF storeCall.ipfsHash \in DOMAIN contentStore
           THEN /\ storeCall.status = "ok"
                /\ storeCall.content = contentStore[storeCall.ipfsHash]
           ELSE /\ storeCall.status = "error"
                /\ storeCall.error =
                     "Failed to retrieve message: Message not found in fallback storage"

C15_Witness ==
    /\ storeCall.op = "get"
    /\ HasFallbackPrefix(storeCall.ipfsHash)
    /\ storeCall.status = "ok"
    /\ ipfsConnected
    /\ storeCall.node = "ok"
    /\ storeCall.gateways[1] = "ok"
    /\ \E a \in DOMAIN contentStore : ~HasFallbackPrefix(a)

\* the sources of the latest get, in the order the code consults them, and
\* whether each would serve the content
GetSources == (IF ipfsConnected THEN <<LocalNode>> ELSE << >>)
                 \o [g \in Gateways |-> g]
GetSourceServes(source) ==
    /\ storeCall.ipfsHash \in DOMAIN contentStore
    /\ IF source = LocalNode THEN storeCall.node = "ok"
       ELSE storeCall.gateways[source] = "ok"
GetFirstServing ==
    LET serving == {k \in 1..Len(GetSources) : GetSourceServes(GetSources[k])}
    IN  IF serving = {} THEN 0
        ELSE CHOOSE k \in serving : \A other \in serving : k <= other

\* the order and outcome of a get on a non-fallback address
GetInOrder ==
    IF GetFirstServing # 0
    THEN /\ storeCall.status = "ok"
         /\ storeCall.content = contentStore[storeCall.ipfsHash]
         /\ storeCall.contacted = SubSeq(GetSources, 1, GetFirstServing)
    ELSE /\ storeCall.status = "error"
         /\ storeCall.contacted = GetSources

\* C16 (as stated): retrieveFromIPFS on a non-fallback address tries the local
\* store node first (when connected), then the gateways one at a time in their
\* configured order; it returns the content of the first source that succeeds
\* and contacts no later source; a gateway that errors or answers non-OK is
\* skipped; only when every source has failed does it raise a retrieval
\* failure, which aggregates the per-gateway errors.
C16_OrderedAggregating ==
    (storeCall.op = "get" /\ ~HasFallbackPrefix(storeCall.ipfsHash)) =>
        /\ GetInOrder
        /\ storeCall.status = "error" =>
              storeCall.gatewayErrors = [g \in Gateways |-> storeCall.gateways[g]]

\* C16 (amended): as stated, except that the retrieval failure raised when
\* every source has failed is the fixed 'Failed to retrieve message from all
\* sources' and carries none of the per-gateway errors.
C16_OrderedFixedFailure ==
    (storeCall.op = "get" /\ ~HasFallbackPrefix(storeCall.ipfsHash)) =>
        /\ GetInOrder
        /\ storeCall.status = "error" =>
              /\ storeCall.gatewayErrors = << >>
              /\ storeCall.error =
                   "Failed to retrieve message: Failed to retrieve message from all sources"

C16_Witness ==
    /\ storeCall.op = "get"
    /\ ~HasFallbackPrefix(storeCall.ipfsHash)
    /\ ipfsConnected
    /\ storeCall.node = "error"
    /\ storeCall.gateways[1] = "notOk"
    /\ storeCall.gateways[2] = "error"
    /\ storeCall.gateways[3] = "ok"
    /\ storeCall.gateways[4] = "ok"
    /\ storeCall.status = "ok"
    /\ storeCall.contacted = <<LocalNode, 1, 2, 3>>

----------------------------------------------------------------------------
(* Claims about MessageComposer.handleSend, checked under SpecSend *)

\* the setProgress calls of a send that completes: start, key lookup (20),
\* encrypt (40), hash (50), upload (70), anchor (90), sent (100), reset
SendOrder == <<0, 20, 40, 50, 70, 90, 100, 0>>

IsPrefix(p, q) == Len(p) <= Len(q) /\ SubSeq(q, 1, Len(p)) = p

\* the steps a send has gone through are an initial part of SendOrder, cut
\* short only by the reset that follows a failure
StepsInOrder ==
    LET log == composer.progressLog
    IN  \/ log = << >>
        \/ IsPrefix(log, SendOrder)
        \/ /\ Len(log) >= 3
           /\ log[Len(log)] = 0
           /\ IsPrefix(SubSeq(log, 1, Len(log) - 1), SubSeq(SendOrder, 1, 6))

StepsOfPosition ==
    /\ composer.pc = "getPublicKey" => composer.progressLog = SubSeq(SendOrder, 1, 2)
    /\ composer.pc = "upload" => composer.progressLog = SubSeq(SendOrder, 1, 5)
    /\ composer.pc \in {"anchor", "wait"} =>
          composer.progressLog = SubSeq(SendOrder, 1, 6)
    /\ (composer.pc = "idle" /\ composer.outcome = "sent") =>
          composer.progressLog = SendOrder

\* C11: every outbound send passes through its steps strictly in the order key
\* lookup, encrypt, hash, upload, anchor, Sent, without skipping a step: the
\* anchor call is issued only after the upload has returned a content address,
\* the recorded integrity hash is the hash of exactly the envelope that was
\* uploaded, and Sent is reached only after the anchor transaction is confirmed.
C11_SendStepsInOrder ==
    /\ [](StepsInOrder /\ StepsOfPosition)
    /\ [][ /\ (messages' # messages \/ lastCall' # lastCall) =>
                /\ composer.pc = "anchor"
                /\ Len(lastCall'.ipfsHash) > 0
                /\ \E j \in 1..Len(putLog) :
                      /\ putLog[j].ipfsHash = lastCall'.ipfsHash
                      /\ putLog[j].content = composer.encryptedMessage
                      /\ lastCall'.messageHash = CreateMessageHash(putLog[j].content)
           /\ (composer.outcome # "sent" /\ composer'.outcome = "sent") =>
                /\ composer.pc = "wait"
                /\ lastCall.status = "ok"
                /\ Len(messages) > 0
                /\ LET m == messages[Len(messages)]
                   IN  /\ m.from = Composer
                       /\ m.to = composer.recipient
                       /\ m.messageHash = CreateMessageHash(composer.encryptedMessage)
                       /\ m.ipfsHash = composer.ipfsHash
         ]_vars

C11_Witness ==
    /\ composer.pc = "idle"
    /\ composer.outcome = "sent"
    /\ composer.progressLog = SendOrder
    /\ Len(messages) = 1
    /\ messages[1].ipfsHash \in DOMAIN contentStore
    /\ CreateMessageHash(contentStore[messages[1].ipfsHash]) = messages[1].messageHash

\* the operation of the step the send is waiting for fails in this step
StepOperationFails ==
    \/ /\ composer.pc = "getPublicKey"
       /\ \/ GetKey(composer.recipient).status # "ok"
          \/ \A iv \in IVs :
                EncryptMessage(composer.message, GetKey(composer.recipient).ret,
                               keyPair[Composer], iv, now).status # "ok"
    \/ /\ composer.pc = "upload"
       /\ storeCall'.status = "error"
    \/ /\ composer.pc = "anchor"
       /\ messages' = messages

----------------------------------------------------------------------------
(* Claims about the receive path and the whole exchange, under SpecReceive *)

\* what utils/crypto's decryptMessage makes of the bytes now stored for an
\* entry, with the viewer's private key and the sender's registered key
DecryptionOf(e) ==
    DecryptMessage(contentStore[e.ipfsHash], GetKey(e.from).ret, keyPair[Viewer])

\* C17: every listed inbound message goes Listed, Fetching, Decrypting and
\* then ends either Ready or DecryptFailed: it is marked decrypted only when
\* the fetch and the decryption both succeeded and its content is then exactly
\* the decrypted plaintext; if the fetch, the sender-key lookup or the
\* decryption fails it is marked failed with the error recorded and is not
\* marked decrypted.
C17_ReadyOnlyWithPlaintext ==
    \A i \in 1..Len(msgList) :
        LET e == msgList[i]
        IN  /\ e.isDecrypted =>
                 /\ e.ipfsHash \in DOMAIN contentStore
                 /\ GetKey(e.from).status = "ok"
                 /\ DecryptionOf(e).status = "ok"
                 /\ e.content.kind = "text"
                 /\ e.content.text = DecryptionOf(e).ret
            /\ e.content = ContentFailed =>
                 (~e.isDecrypted /\ e.decryptionError # "null")

\* C18: end to end: when A and B have each generated and registered a key pair
\* and A sends text T to B, then B, listing the conversation with A, fetching
\* the record and decrypting with B's private key and A's registered public
\* key, recovers exactly T.
C18_RecipientRecoversText ==
    \A i \in 1..Len(msgList) :
        LET e == msgList[i]
        IN  (/\ tamperCount = 0
             /\ selectedRecipient = e.from
             /\ e.to = Viewer
             /\ e.isDecrypted)
            => /\ e.content.kind = "text"
               /\ EncryptMessage(e.content.text, GetKey(e.to).ret, keyPair[e.from],
                                 contentStore[e.ipfsHash].iv,
                                 contentStore[e.ipfsHash].timestamp).ret
                     = contentStore[e.ipfsHash]

\* decryptMessage of utils/crypto, called as the recipient calls it, on the
\* envelope the sender made for the recipient
RecipientDecrypts ==
    (/\ cryptoCall.op = "decrypt"
     /\ cryptoCall.privateKey # cryptoCall.otherPrivateKey
     /\ cryptoCall.publicKey = PublicKeyOf(cryptoCall.otherPrivateKey)
     /\ cryptoCall.otherPublicKey = PublicKeyOf(cryptoCall.privateKey))
        => (cryptoCall.status = "ok" /\ cryptoCall.ret = cryptoCall.message)

----------------------------------------------------------------------------
(* Claims about the key files, checked under SpecKeys *)

\* C21: a load returns the key pair of the latest successful save of the same
\* scope when the passphrase is the one it was saved with; with another
\* passphrase, or when nothing is saved for the scope, it returns no key
\* pair, and so never a key pair other than the saved one.
C21_LoadReversesSave ==
    keyCall.op = "loadKeyPair" =>
        LET s == savedKeys[ToLowerCase(keyCall.userAddress)]
        IN  IF s.saved /\ s.password = keyCall.password
            THEN keyCall.ret = s.keyPair
            ELSE keyCall.ret.kind # "keyPair"

\* a load with the passphrase of the latest save has returned the saved pair
\* while another scope holds a different pair and a third holds nothing
C21_Witness ==
    /\ keyCall.op = "loadKeyPair"
    /\ savedKeys[ToLowerCase(keyCall.userAddress)].saved
    /\ savedKeys[ToLowerCase(keyCall.userAddress)].password = keyCall.password
    /\ keyCall.ret.kind = "keyPair"
    /\ \E a \in Scopes : ~savedKeys[ToLowerCase(a)].saved
    /\ \E a \in Scopes : /\ savedKeys[ToLowerCase(a)].saved
                         /\ savedKeys[ToLowerCase(a)].keyPair # keyCall.ret

\* two address strings name the same identity when they differ in case only
SameScope(a, b) ==
    /\ Len(a) = Len(b)
    /\ \A i \in 1..Len(a) : a[i] % 10 = b[i] % 10

\* what a scope's stored key file amounts to for its readers
StoredView(storage, userAddress) ==
    [has  |-> HasStoredKeyPair(storage, userAddress),
     load |-> [p \in Passwords |-> LoadKeyPair(storage, p, userAddress, "syntaxError")]]

\* C22: a save or a clear for one scope leaves what is stored for every other
\* scope as it was, and two spellings of an address that differ in case only
\* always see the same stored key pair.
C22_ScopesDoNotCollide ==
    /\ [](\A a, b \in Scopes :
            SameScope(a, b) => StoredView(keyStorage, a) = StoredView(keyStorage, b))
    /\ [][\A b \in Scopes :
            ~SameScope(b, keyCall'.userAddress) =>
                StoredView(keyStorage', b) = StoredView(keyStorage, b)]_vars

\* a pair has just been saved under the upper-case spelling of an address
\* while another scope holds a different pair
C22_Witness ==
    /\ keyCall.op = "saveKeyPair"
    /\ keyCall.ok
    /\ keyCall.userAddress = <<11>>
    /\ StoredView(keyStorage, <<1>>).load[keyCall.password] = keyCall.keyPair
    /\ \E b \in Scopes, p \in Passwords :
          /\ ~SameScope(b, keyCall.userAddress)
          /\ StoredView(keyStorage, b).load[p].kind = "keyPair"
          /\ StoredView(keyStorage, b).load[p] # keyCall.keyPair

----------------------------------------------------------------------------
(* Claims about the KeyManagement component, checked under SpecKeyMgmt *)

\* C23: once the user has confirmed Clear Keys, nothing is stored for the
\* connected account: hasStoredKeyPair(account) is false and loadKeyPair
\* returns no key pair for it under any passphrase.
C23_ClearLeavesNothingStored ==
    (keyCall.op = "handleClearKeys" /\ keyCall.ok) =>
        /\ ~HasStoredKeyPair(keyStorage, keyMgmt.account)
        /\ \A p \in Passwords, g \in GarbageOutcomes :
              LoadKeyPair(keyStorage, p, keyMgmt.account, g).kind # "keyPair"

----------------------------------------------------------------------------
(* Claims about the content-store client, checked under SpecIpfs *)

\* C27: in every state, isConnected implies that the client handle is set and
\* is a handle whose connection test has succeeded; and when an invocation
\* has ended with no configuration connecting and no other invocation is
\* running, the handle is null and isConnected is false.
C27_ConnectedMeansTestedClient ==
    /\ ipfsModule.isConnected =>
          /\ ipfsModule.ipfsClient # NullClient
          /\ ipfsModule.ipfsClient \in versionOk
    /\ (/\ \A c \in InitCallers : initCall[c].pc = "idle"
        /\ ipfsModule.currentConfig = GatewayFallbackConfig) =>
          /\ ipfsModule.ipfsClient = NullClient
          /\ ~ipfsModule.isConnected

\* the first part of C27 alone: a connected module has a client object
ConnectedHasClient == ipfsModule.isConnected => ipfsModule.ipfsClient # NullClient

----------------------------------------------------------------------------
(* Claims about termination, checked under SpecLive *)

\* C24: no send and no fetch blocks for ever: a send that has started ends
\* (sent or failed) and a fetch/decrypt that has started ends (ready or
\* failed), whatever the external services do.
C24_NoOperationBlocksForever ==
    /\ composer.sending ~> ~composer.sending
    /\ (fetchOp.pc # "idle") ~> (fetchOp.pc = "idle")

\* the awaits the code does bound do end: a fetch never stays at the node read
NodeReadEnds == (fetchOp.pc = "node") ~> (fetchOp.pc # "node")

----------------------------------------------------------------------------
\* C30: deriveSharedSecret gives one result for the three encodings of a
\* whole key (prefix '0x04', prefix '0x', no prefix), keys whose x begins
\* with 04 included, and a coordinate part shorter than one coordinate is
\* rejected with an error and yields no key
C30_EncodingsAgree ==
    deriveCall.op = "derive" =>
        /\ Len(deriveCall.coordinates) = 2 * CoordLen =>
              /\ deriveCall.uncompressed.status = "ok"
              /\ deriveCall.hex = deriveCall.uncompressed
              /\ deriveCall.bare = deriveCall.uncompressed
        /\ Len(deriveCall.coordinates) < CoordLen =>
              \A r \in {deriveCall.uncompressed, deriveCall.hex, deriveCall.bare} :
                  r.status = "error" /\ r.ret = << >>

\* the same for the keys whose x does not begin with 04, and the rejection
C30_EncodingsAgreeUnlessX04 ==
    deriveCall.op = "derive" =>
        /\ ( /\ Len(deriveCall.coordinates) = 2 * CoordLen
             /\ ~StartsWith(deriveCall.coordinates, <<0, 4>>) ) =>
              /\ deriveCall.uncompressed.status = "ok"
              /\ deriveCall.hex = deriveCall.uncompressed
              /\ deriveCall.bare = deriveCall.uncompressed
        /\ Len(deriveCall.coordinates) < CoordLen =>
              \A r \in {deriveCall.uncompressed, deriveCall.hex, deriveCall.bare} :
                  r.status = "error" /\ r.ret = << >>

----------------------------------------------------------------------------
\* the ids shown and the entry shown for an id
ShownIds(list) == {list[i].id : i \in 1..Len(list)}

\* C29: the list shown never holds two entries with the same id, under any
\* interleaving of loads and subscription deliveries, and a delivery for an
\* id already shown leaves the list unchanged
C29_NoDuplicateIds ==
    /\ [](\A i, j \in 1..Len(msgList) :
            msgList[i].id = msgList[j].id => i = j)
    /\ [][\A id \in MessageIds :
            ( /\ id \in listener'.delivered
              /\ id \notin listener.delivered
              /\ id \in ShownIds(msgList) ) => msgList' = msgList]_vars

\* both records were delivered by the subscription and shown by a load, and
\* the decrypt a load started for a record runs next to the delivery's timer
C29_Witness ==
    /\ Len(msgList) = 2
    /\ listener.delivered = {0, 1}
    /\ \E id \in timers : id \in BagToSet(tasks) /\ id \in ShownIds(msgList)

\* C26: a completion of decryptMessage(message) replaces the list by one in
\* which only the entry of message.id differs; every other entry, the order
\* and the length stay; with the id not shown the list does not change
C26_CompletionChangesOneEntry ==
    [][\A id \in MessageIds :
          CopiesIn(id, tasks') < CopiesIn(id, tasks) =>
              /\ Len(msgList') = Len(msgList)
              /\ \A i \in 1..Len(msgList) :
                    IF msgList[i].id = id
                    THEN /\ msgList'[i].id = id
                         /\ ~msgList'[i].isDecrypting
                         /\ \/ msgList'[i].isDecrypted
                            \/ msgList'[i].decryptionError # "null"
                    ELSE msgList'[i] = msgList[i]
              /\ id \notin ShownIds(msgList) => msgList' = msgList]_vars

\* decrypts of two records have completed, one marked decrypted and one
\* marked failed, side by side in the list
C26_Witness ==
    \E i, j \in 1..Len(msgList) :
        /\ msgList[i].isDecrypted
        /\ msgList[j].decryptionError # "null"
        /\ msgList[j].content = ContentFailed
        /\ tasks = EmptyBag

\* a decrypt is in flight for a record the list no longer shows
CompletionOfAbsentId ==
    \E id \in BagToSet(tasks) : id \notin ShownIds(msgList)

\* C28: at most one decryptMessage is in flight per id, and no id is marked
\* in flight once every started decrypt has completed
C28_OneFetchPerId ==
    /\ \A id \in MessageIds : CopiesIn(id, tasks) <= 1
    /\ tasks = EmptyBag => decryptingIds = {}

\* the second half of C28 alone
InFlightEmptiesWhenDone == tasks = EmptyBag => decryptingIds = {}

\* the entry of id is shown as decrypting
MarkedDecrypting(id) ==
    \E i \in 1..Len(msgList) :
        /\ msgList[i].id = id
        /\ msgList[i].isDecrypting \/ id \in decryptingIds

\* C25: a retried entry leaves the decrypting state again; no entry stays
\* marked as decrypting for ever
C25_RetryEnds ==
    \A id \in MessageIds : MarkedDecrypting(id) ~> ~MarkedDecrypting(id)

\* the first half of C25 alone: an entry a retry has marked is unmarked again
RetriedEntryEnds ==
    \A id \in MessageIds :
        (\E i \in 1..Len(msgList) : msgList[i].id = id /\ msgList[i].isDecrypting)
            ~> ~(\E i \in 1..Len(msgList) :
                     msgList[i].id = id /\ msgList[i].isDecrypting)

\* a retry is in flight next to an earlier decrypt of the same record
RetryNextToEarlierDecrypt ==
    \E i \in 1..Len(msgList) :
        msgList[i].isDecrypting /\ CopiesIn(msgList[i].id, tasks) = 2

====
